---- MODULE Spec2Model ----
(***************************************************************************)
(* AntennaSim backend: the request pipeline (simulate / optimize HTTP      *)
(* handlers), the Redis-backed admission layer and result cache, and the   *)
(* sandboxed nec2c runner.                                                  *)
(*                                                                         *)
(* The HTTP handlers are coroutines on one event loop: an action is one    *)
(* store command reaching the store together with the handler code that    *)
(* runs, without suspension, up to the next awaited store command.  The    *)
(* solver call (run_nec2c) and run_optimization are synchronous: while one *)
(* is running no other coroutine takes a step (variable busy).             *)
(*                                                                         *)
(* Two specifications: Spec handles the requests one after another, with   *)
(* store failures and every request body; SpecConcurrent interleaves two   *)
(* requests with equal bodies at their suspension points, the store        *)
(* reachable.                                                              *)
(*                                                                         *)
(* Time is a discrete clock.  time.time() has sub-microsecond resolution,  *)
(* so two reads by two handler activations never return the same value:    *)
(* every read in check_rate_limit advances the clock by one unit.          *)
(***************************************************************************)
EXTENDS Integers, Sequences, FiniteSets, TLC

---------------------------------------------------------------------------
(* Bounds of the model *)

NumSlots == 2
\* requests that may be in flight together (handler activations)
MaxReqs == 3
\* requests started in one behaviour
MaxTime == 4
\* last instant of the clock
MaxFaults == 1
\* times the store may become unreachable
MaxRuns == 2
MaxWires == 2
MaxTag == 2
MaxSegs == 2
MaxLines == 7
MaxVariables == 1
MaxIterations == 2
MaxCost == 2
MinValue == 1
MaxValue == 2
MaxApplied == 2
MaxEmits == 3
Capacity == 2
TicksPerSecond == 2
MaxTicks == 12
MaxComment == 2
\* calls of run_nec2c in one behaviour
NumRunIds == 2
\* distinct values uuid4().hex[:12] takes

(* The limits check_rate_limit reads from settings (rate_limiter.py:3-7),  *)
(* and the expiry times of the source, scaled to the clock: the order      *)
(* ConcTTL < window = cache TTL < window + slack of the source             *)
(* (120 < 3600 = 3600 < 3660) is kept.                                     *)

rate_limit_per_hour == 2
rate_limit_window_seconds == 3
max_concurrent_per_ip == 1
ConcTTL == 2
CACHE_TTL_SECONDS == 3
max_total_segments == 3
RateKeySlack == 1

NoTTL == -1

(* optimizer.py:67, 93, 103, 106: the penalty cost 1e6, above every cost    *)
(* an evaluation computes; optimizer.py:176: float("inf")                  *)
Penalty == MaxCost + 1
Infinity == Penalty + 1

(* Python's None, where a number is expected *)
None == -1
\* a key without expiry

Slots == 1..NumSlots

Kinds == {"simulate", "optimize"}

(* Request bodies: the wires' segment counts and the frequency steps.  Two *)
(* different bodies with the same total segment count.                     *)
Bodies ==
    { [segments |-> <<21>>, steps |-> 1],
      [segments |-> <<10, 11>>, steps |-> 2] }

NoBody == [segments |-> <<>>, steps |-> 0]

RECURSIVE SumSeq(_)
SumSeq(s) == IF s = <<>> THEN 0 ELSE Head(s) + SumSeq(Tail(s))

(* simulate.py:35 *)
total_segments(b) == SumSeq(b.segments)

(* cache.py:55-63: canonical JSON of the request under SHA-256; the digest *)
(* is taken to be collision free, so the key determines the body.          *)
compute_cache_key(b) == <<"sim:", b>>

Keys == { compute_cache_key(b) : b \in Bodies }

---------------------------------------------------------------------------
(* Results *)

NoResult ==
    [ simulation_id |-> 0, engine |-> "", computed_in_ms |-> 0,
      total_segments |-> 0, cached |-> FALSE,
      frequency_data |-> <<>>, warnings |-> <<>> ]

ResultFields ==
    << "simulation_id", "engine", "computed_in_ms", "total_segments",
       "cached", "frequency_data", "warnings" >>

(* One FrequencyResult, reduced to what the pipeline reads: swr_50 and the *)
(* feed resistance.  The first block of a sweep is a match, the later ones *)
(* are far off resonance.                                                  *)
BlockOf(i) ==
    IF i = 1 THEN [idx |-> i, swr_50 |-> 1, real |-> 50]
    ELSE [idx |-> i, swr_50 |-> 11, real |-> 0]

(* simulate.py:132-142 *)
RECURSIVE CollectWarnings(_)
CollectWarnings(fd) ==
    IF fd = <<>> THEN <<>>
    ELSE LET f == Head(fd)
             w1 == IF f.swr_50 > 10 THEN << <<"high_swr", f.idx>> >> ELSE <<>>
             w2 == IF f.real < 1 THEN << <<"low_r", f.idx>> >> ELSE <<>>
         IN  w1 \o w2 \o CollectWarnings(Tail(fd))

(* cache.py:90-91 json.dumps + zlib.compress: the record as the list of    *)
(* its (key, value) pairs.                                                  *)
Serialize(result) ==
    [ i \in 1..Len(ResultFields) |-> <<ResultFields[i], result[ResultFields[i]]>> ]

(* cache.py:75-76 zlib.decompress + json.loads *)
Deserialize(data) ==
    [ f \in { data[i][1] : i \in 1..Len(data) } |->
        LET i == CHOOSE j \in 1..Len(data) : data[j][1] = f IN data[i][2] ]

(* A hit that hands back the first request's identifier. *)
HitKeepsId(cachedDict, id) ==
    [ cachedDict EXCEPT !.cached = TRUE, !.computed_in_ms = 0 ]

(* simulate.py:59-62: metadata overridden on a hit *)
HitResult(cachedDict, id) ==
    [ cachedDict EXCEPT !.simulation_id = id, !.cached = TRUE,
                        !.computed_in_ms = 0 ]

(* simulate.py:152-161 *)
NewResult(id, b, elapsed, fd) ==
    [ simulation_id |-> id, engine |-> "nec2c", computed_in_ms |-> elapsed,
      total_segments |-> total_segments(b), cached |-> FALSE,
      frequency_data |-> fd, warnings |-> CollectWarnings(fd) ]

NoResp == [status |-> 0, error |-> "", retry_after |-> 0, result |-> NoResult]

Ok200(result) ==
    [status |-> 200, error |-> "", retry_after |-> 0, result |-> result]

ErrResp(code, tag, retry) ==
    [status |-> code, error |-> tag, retry_after |-> retry, result |-> NoResult]

---------------------------------------------------------------------------
VARIABLES
    now,        \* the clock (time.time(), and the store's clock)
    up,         \* the store is reachable
    pool,       \* cache.py _redis_pool is not None
    enabled,    \* settings.rate_limit_enabled
    bodies,     \* the request bodies the clients send in this behaviour
    faults,     \* times the store became unreachable
    started,    \* requests started so far
    busy,       \* the slot whose synchronous call occupies the event loop, or 0
    rate,       \* sorted set rate:<addr>
    conc,       \* key concurrent:<addr>
    cache,      \* key -> cached entry
    pc,         \* per slot: position of the handler
    kind,       \* per slot: which handler
    body,       \* per slot: the request body
    sid,        \* per slot: sim_id
    t,          \* per slot: now, as read by check_rate_limit
    cnt,        \* per slot: request_count, concurrent_count read by the pipeline
    res,        \* per slot: result about to be cached and returned
    resp,       \* per slot: the response
    trace,      \* per slot: the steps of the handler, in order (history)
    slot,       \* per slot: its INCR has run and its DECR has not (history)
    held,       \* per slot: slots held by others when its pipeline ran (history)
    health,     \* the health report just sent: <<redis_connected>>, else <<>>
    lastStored, \* key -> the result last written to it, while cached (history)
    rpc,        \* run_nec2c: position of the call
    runs,       \* run_nec2c: calls made so far
    run_id,     \* run_nec2c: the run's identifier, 0 outside a call
    fs,         \* the paths that exist under settings.nec_workdir
    pending,    \* run_nec2c: how the try block ended, "" while inside it
    outcome,    \* run_nec2c: what the caller got from the last call
    removed,    \* run_nec2c: the paths the call removed, in order (history)
    logged,     \* run_nec2c: "Cleanup failed" was logged by the call
    ran,        \* run_nec2c: what the solver process and the read did (history)
    used,       \* the run identifiers of the calls that ended (history)
    vpc,        \* request validation: position
    vreq,       \* request validation: the body received
    verr,       \* request validation: the validator that raised, "" if none
    handled,    \* request validation: the handler was entered with the body
    ppc,        \* parse_nec_output: position of the call
    lineno,     \* parse_nec_output: lines of the output read so far
    compute_currents, \* parse_nec_output: the flag it was called with
    parser,     \* parse_nec_output: its local variables
    blocks,     \* the frequency blocks of the output read so far (history)
    opc,        \* run_optimization: position of the call
    n_variables,      \* run_optimization: len(request.variables)
    max_iterations,   \* run_optimization: request.max_iterations
    iteration_count,  \* run_optimization: its counter of evaluations
    history,    \* run_optimization: its list of evaluations
    iterations, \* minimize: the iterations of the method so far
    to_evaluate,      \* minimize: evaluations left in the step under way
    oresult,    \* run_optimization: the OptimizationResult it returned
    x0,         \* run_optimization: the starting value of the variable
    wire_value, \* the variable's field in request.wires, None if not there
    best_cost,  \* run_optimization: the lowest cost returned so far
    evaluated,  \* what happened inside the last evaluation, "" before it
    apc,        \* _apply_variables: "idle" before the request, then "ready"
    request_wires,  \* request.wires, the list the request holds
    sent_wires, \* request.wires as the client sent them
    variable,   \* request.variables: the variable of the request
    produced,   \* the wire list the last _apply_variables returned
    applied,    \* how many times _apply_variables was called
    wpc,        \* optimizer_ws: where the handler of the connection is
    sender_task,    \* optimizer_ws: the task running send_progress
    worker,     \* the executor thread running the search
    progress_queue, \* optimizer_ws: the queue between thread and sender
    cancelled,  \* optimizer_ws: the event the sender sets
    emitted,    \* the iteration of the last progress event of the search
    client,     \* the client's end of the connection: "open" or "gone"
    left,       \* where the handler was and what was sent when it went
    sent,       \* the messages sent on the connection, in order
    kpc,        \* the client of the limiter: "serving" or "rejected"
    entries,    \* rate:<addr>: the scores of its entries, in ticks
    clock,      \* time.time() of the last check, in ticks
    rejection,  \* the last rate-limit rejection: when, and its retry_after
    verdict,    \* what the request sent after retry_after met, "" before
    dpc,        \* the caller of build_card_deck: "idle", "built" or "parsed"
    caller,     \* "simulate" (simulate.py) or "optimizer" (_evaluate_objective)
    sim_request,\* the SimulationRequest handed to build_card_deck
    card_deck,  \* the string build_card_deck returned
    grid        \* the pattern geometry handed to parse_nec_output

runnerVars == <<rpc, runs, run_id, fs, pending, outcome, removed, logged,
                ran, used>>
validateVars == <<vpc, vreq, verr, handled>>
parserVars == <<ppc, lineno, compute_currents, parser, blocks>>
optimizerVars == <<opc, n_variables, max_iterations, iteration_count, history,
                   iterations, to_evaluate, oresult, x0, wire_value, best_cost,
                   evaluated>>
applyVars == <<apc, request_wires, sent_wires, variable, produced, applied>>
wsVars == <<wpc, sender_task, worker, progress_queue, cancelled, emitted,
            client, left, sent>>
retryVars == <<kpc, entries, clock, rejection, verdict>>
deckVars == <<dpc, caller, sim_request, card_deck, grid>>
fixedVars == <<enabled, bodies, deckVars, retryVars, wsVars, applyVars, runnerVars,
               validateVars, parserVars, optimizerVars>>
envVars == <<now, up, faults>>
storeVars == <<rate, conc, cache, lastStored>>
reqVars == <<pc, kind, body, sid, t, cnt, res, resp, trace, slot, held>>
vars == <<now, up, pool, enabled, bodies, faults, started, busy, rate, conc,
          cache, pc, kind, body, sid, t, cnt, res, resp, trace, slot, held,
          health, lastStored, rpc, runs, run_id, fs, pending, outcome, removed,
          logged, ran, used, vpc, vreq, verr, handled, ppc, lineno,
          compute_currents, parser, blocks, opc, n_variables, max_iterations,
          iteration_count, history, iterations, to_evaluate, oresult, x0,
          wire_value, best_cost, evaluated, apc, request_wires, sent_wires,
          variable, produced, applied, wpc, sender_task, worker,
          progress_queue, cancelled, emitted, client, left, sent,
          kpc, entries, clock, rejection, verdict,
          dpc, caller, sim_request, card_deck, grid>>
serverVars == <<now, up, pool, enabled, bodies, faults, started, busy, rate,
                conc, cache, pc, kind, body, sid, t, cnt, res, resp, trace,
                slot, held, health, lastStored>>
pipelineVars == <<serverVars, validateVars, parserVars, optimizerVars,
                  applyVars, wsVars,
    retryVars,
    deckVars>>
besidesValidate == <<serverVars, runnerVars, parserVars, optimizerVars,
                     applyVars, wsVars,
    retryVars,
    deckVars>>
besidesParser == <<serverVars, runnerVars, validateVars, optimizerVars,
                   applyVars, wsVars,
    retryVars,
    deckVars>>
besidesOptimizer == <<serverVars, runnerVars, validateVars, parserVars,
                      applyVars, wsVars,
    retryVars,
    deckVars>>
besidesApply == <<serverVars, runnerVars, validateVars, parserVars,
                  optimizerVars, wsVars,
    retryVars,
    deckVars>>
besidesWs == <<serverVars, runnerVars, validateVars, parserVars,
               optimizerVars, applyVars,
    retryVars,
    deckVars>>
besidesRetry == <<serverVars, runnerVars, validateVars, parserVars,
                  optimizerVars, applyVars, wsVars,
    deckVars>>
besidesDeck == <<serverVars, runnerVars, validateVars, parserVars, optimizerVars, applyVars, wsVars, retryVars>>

(* parse_nec_output (nec_output.py:206-218): the locals before the first  *)
(* line.  A line is known by its number; 0 stands for None.                *)
NoLocals ==
    [ results |-> <<>>, current_freq |-> 0, current_impedance |-> 0,
      current_pattern_data |-> <<>>, current_power_radiated |-> 0,
      current_power_input |-> 0, current_currents |-> <<>>,
      in_input_params |-> FALSE, in_pattern_section |-> FALSE,
      in_current_section |-> FALSE, skip_header_lines |-> 0 ]

(* No OptimizationResult returned yet. *)
NoOptimization ==
    [status |-> "", iterations_used |-> 0, history |-> <<>>, final_cost |-> 0,
     optimized_values |-> 0, optimized_wires |-> 0]

(* models/simulation.py:42-50: the defaults of PatternConfig *)
DefaultPattern ==
    [theta_start |-> -90, theta_stop |-> 90, theta_step |-> 5,
     phi_start |-> 0, phi_stop |-> 355, phi_step |-> 5]

(* No deck built yet, nothing handed to the parser yet. *)
NoDeckRequest ==
    [comment |-> <<>>, wires |-> <<>>, arcs |-> <<>>, transforms |-> <<>>,
     symmetry |-> <<>>, ground_type |-> "", loads |-> <<>>,
     transmission_lines |-> <<>>, compute_currents |-> FALSE,
     excitations |-> <<>>, steps |-> 0, pattern |-> DefaultPattern]
NoGeometry ==
    [n_theta |-> 0, n_phi |-> 0, theta_start |-> 0, theta_step |-> 0,
     phi_start |-> 0, phi_step |-> 0]

(* No rate-limit rejection yet. *)
NoRetry == [at |-> 0, retry_after |-> 0]

(* The client has not closed the connection. *)
NotLeft == [at |-> "", sent |-> 0]

(* No optimization variable received yet. *)
NoVariable ==
    [wire_tag |-> 1, field |-> "tag", linked_wire_tag |-> None,
     linked_field |-> "", link_factor |-> 1]

(* No request body received yet. *)
NoReq == [wires |-> <<>>, excitations |-> <<>>]

(* No solver process yet, nothing read. *)
NotRun ==
    [end |-> "none", has_out |-> FALSE, read_failed |-> FALSE,
     geometry |-> FALSE, segment |-> FALSE]

RateAbsent == [members |-> {}, exp |-> NoTTL]
ConcAbsent == [exists |-> FALSE, val |-> 0, exp |-> NoTTL]
CacheAbsent == [data |-> <<>>, exp |-> NoTTL]

NoCnt == [request_count |-> 0, concurrent_count |-> 0]

(* Key expiry in the store: a key with an expiry is gone once the clock    *)
(* reaches it.                                                              *)
Gone(exp, n) == exp # NoTTL /\ exp <= n

RateAt(n) == IF Gone(rate.exp, n) THEN RateAbsent ELSE rate
ConcAt(n) == IF Gone(conc.exp, n) THEN ConcAbsent ELSE conc
CacheAt(n) ==
    [k \in Keys |-> IF Gone(cache[k].exp, n) THEN CacheAbsent ELSE cache[k]]
StoredAt(n) ==
    [k \in Keys |-> IF Gone(cache[k].exp, n) THEN NoResult ELSE lastStored[k]]

(* The clock moves to n. *)
ClockTo(n) ==
    /\ now' = n
    /\ rate' = RateAt(n)
    /\ conc' = ConcAt(n)
    /\ cache' = CacheAt(n)
    /\ lastStored' = StoredAt(n)

InFlight(r) == pc[r] \notin {"idle", "done"}

Min(S) == CHOOSE x \in S : \A y \in S : x <= y
Max2(a, b) == IF a >= b THEN a ELSE b

---------------------------------------------------------------------------
InitRequests ==
    /\ now = 0
    /\ started = 0
    /\ busy = 0
    /\ rate = RateAbsent
    /\ conc = ConcAbsent
    /\ cache = [k \in Keys |-> CacheAbsent]
    /\ pc = [r \in Slots |-> "idle"]
    /\ kind = [r \in Slots |-> "simulate"]
    /\ body = [r \in Slots |-> NoBody]
    /\ sid = [r \in Slots |-> 0]
    /\ t = [r \in Slots |-> 0]
    /\ cnt = [r \in Slots |-> NoCnt]
    /\ res = [r \in Slots |-> NoResult]
    /\ resp = [r \in Slots |-> NoResp]
    /\ trace = [r \in Slots |-> <<>>]
    /\ slot = [r \in Slots |-> FALSE]
    /\ held = [r \in Slots |-> 0]
    /\ health = <<>>
    /\ lastStored = [k \in Keys |-> NoResult]
    /\ rpc = "idle"
    /\ runs = 0
    /\ run_id = 0
    /\ fs = {}
    /\ pending = ""
    /\ outcome = ""
    /\ removed = <<>>
    /\ logged = FALSE
    /\ ran = NotRun
    /\ used = {}
    /\ vpc = "idle"
    /\ vreq = NoReq
    /\ verr = ""
    /\ handled = FALSE
    /\ ppc = "idle"
    /\ lineno = 0
    /\ compute_currents = FALSE
    /\ parser = NoLocals
    /\ blocks = <<>>
    /\ opc = "idle"
    /\ n_variables = 1
    /\ max_iterations = 1
    /\ iteration_count = 0
    /\ history = <<>>
    /\ iterations = 0
    /\ to_evaluate = 0
    /\ oresult = NoOptimization
    /\ x0 = MinValue
    /\ wire_value = MinValue
    /\ best_cost = Infinity
    /\ evaluated = ""
    /\ apc = "idle"
    /\ request_wires = <<>>
    /\ sent_wires = <<>>
    /\ variable = NoVariable
    /\ produced = <<>>
    /\ applied = 0
    /\ wpc = "connecting"
    /\ sender_task = "none"
    /\ worker = "none"
    /\ progress_queue = <<>>
    /\ cancelled = FALSE
    /\ emitted = 0
    /\ client = "open"
    /\ left = NotLeft
    /\ sent = <<>>
    /\ kpc = "serving"
    /\ entries = {}
    /\ clock = 0
    /\ rejection = NoRetry
    /\ verdict = ""
    /\ dpc = "idle"
    /\ caller = ""
    /\ sim_request = NoDeckRequest
    /\ card_deck = <<>>
    /\ grid = NoGeometry

Init ==
    /\ InitRequests
    /\ up \in BOOLEAN
    /\ pool = up                       \* main.py:38 get_redis() at startup
    /\ faults = IF up THEN 0 ELSE 1
    /\ enabled \in BOOLEAN
    /\ bodies = Bodies

(* The handler goes on after check_rate_limit returned: simulate awaits    *)
(* the cache lookup (simulate.py:54), optimize calls run_optimization       *)
(* synchronously (optimize.py:37).                                         *)
Admit(r, k, tr) ==
    /\ pc' = [pc EXCEPT ![r] = IF k = "simulate" THEN "lookup" ELSE "running"]
    /\ busy' = IF k = "simulate" THEN busy ELSE r
    /\ trace' = [trace EXCEPT ![r] =
                    tr \o (IF k = "simulate" THEN <<"admitted">>
                                             ELSE <<"admitted", "run">>)]
    /\ t' = [t EXCEPT ![r] = 0]
    /\ cnt' = [cnt EXCEPT ![r] = NoCnt]
    /\ held' = [held EXCEPT ![r] = 0]
    /\ UNCHANGED resp

(* A check that turns the request away when the store fails. *)
FailClosed(r) ==
    /\ pc' = [pc EXCEPT ![r] = "done"]
    /\ resp' = [resp EXCEPT ![r] = ErrResp(429, "rate_limit_exceeded", 5)]
    /\ trace' = [trace EXCEPT ![r] = Append(@, "rejected")]
    /\ UNCHANGED <<busy, t, cnt, held>>

(* rate_limiter.py:121-124: any store error inside check_rate_limit is     *)
(* logged and the request is allowed.                                      *)
AdmitDegraded(r) == Admit(r, kind[r], trace[r])

(* The check goes on to its next store command. *)
Goto(r, label) ==
    /\ pc' = [pc EXCEPT ![r] = label]
    /\ UNCHANGED <<busy, trace, t, cnt, held, resp>>

(* A rejection raised inside the handler's try block: the finally block    *)
(* releases.                                                               *)
RejectInsideTry(r, tag, retry) ==
    /\ pc' = [pc EXCEPT ![r] = "release"]
    /\ resp' = [resp EXCEPT ![r] = ErrResp(429, tag, retry)]
    /\ trace' = [trace EXCEPT ![r] = Append(@, "rejected")]
    /\ UNCHANGED <<busy, t>>

(* The check raises HTTPException(429): the handler ends, the try block    *)
(* of simulate.py:50 / optimize.py:29 is never entered.                   *)
Reject(r, tag, retry) ==
    /\ pc' = [pc EXCEPT ![r] = "done"]
    /\ resp' = [resp EXCEPT ![r] = ErrResp(429, tag, retry)]
    /\ trace' = [trace EXCEPT ![r] = Append(@, "rejected")]
    /\ UNCHANGED <<busy, t>>

(* simulate.py:34-48 / optimize.py:26-27 with rate_limiter.py:37-57: the   *)
(* handler starts and check_rate_limit runs up to its first store command. *)
Start(r) ==
    /\ pc[r] = "idle"
    /\ \A q \in Slots : pc[q] = "idle" => r <= q   \* slots are only names
    /\ busy = 0
    /\ started < MaxReqs
    /\ \E k \in Kinds, b \in bodies :
        /\ kind' = [kind EXCEPT ![r] = k]
        /\ body' = [body EXCEPT ![r] = IF k = "simulate" THEN b ELSE NoBody]
        /\ sid' = [sid EXCEPT ![r] = started + 1]
        /\ started' = started + 1
        /\ IF ~enabled
           THEN \* rate_limiter.py:44-45
                /\ Admit(r, k, <<"check">>)
                /\ UNCHANGED <<now, pool, storeVars>>
           ELSE IF ~(pool \/ up)
           THEN \* rate_limiter.py:47-50: get_redis() returned None
                /\ Admit(r, k, <<"check">>)
                /\ UNCHANGED <<now, pool, storeVars>>
           ELSE \* rate_limiter.py:52-57: now = time.time(), pipeline queued
                /\ now < MaxTime
                /\ ClockTo(now + 1)
                /\ pool' = TRUE
                /\ pc' = [pc EXCEPT ![r] = "pipe"]
                /\ t' = [t EXCEPT ![r] = now + 1]
                /\ trace' = [trace EXCEPT ![r] = <<"check">>]
                /\ UNCHANGED <<busy, cnt, held, resp>>
    /\ health' = <<>>
    /\ UNCHANGED <<up, faults, fixedVars, res, slot>>

HeldByOthers(r) == Cardinality({q \in Slots \ {r} : slot[q]})

(* A check that lets one request too many through. *)
OverRateStrict(request_count) == request_count > rate_limit_per_hour

(* rate_limiter.py:75 *)
OverRate(request_count) == request_count >= rate_limit_per_hour

(* rate_limiter.py:98 *)
OverConcurrent(concurrent_count) == concurrent_count >= max_concurrent_per_ip

(* rate_limiter.py:59-111: ZREMRANGEBYSCORE, ZCARD, GET in one pipeline,   *)
(* then the two limit checks.                                              *)
Pipe(r) ==
    /\ pc[r] = "pipe"
    /\ busy = 0
    /\ IF ~up
       THEN /\ AdmitDegraded(r)
            /\ UNCHANGED rate
       ELSE LET window_start == t[r] - rate_limit_window_seconds
                kept == {s \in rate.members : s > window_start}
                request_count == Cardinality(kept)
                concurrent_count == IF conc.exists THEN conc.val ELSE 0
            IN
            /\ rate' = IF kept = {} THEN RateAbsent
                       ELSE [rate EXCEPT !.members = kept]
            /\ cnt' = [cnt EXCEPT ![r] =
                         [request_count |-> request_count,
                          concurrent_count |-> concurrent_count]]
            /\ held' = [held EXCEPT ![r] = HeldByOthers(r)]
            /\ IF OverRate(request_count)
               THEN /\ pc' = [pc EXCEPT ![r] = "zrange"]
                    /\ UNCHANGED <<busy, trace, t, resp>>
               ELSE IF OverConcurrent(concurrent_count)
               THEN Reject(r, "concurrent_limit_exceeded", 5)
               ELSE /\ pc' = [pc EXCEPT ![r] = "zadd"]
                    /\ UNCHANGED <<busy, trace, t, resp>>
    /\ health' = <<>>
    /\ UNCHANGED <<envVars, pool, fixedVars, started, conc, cache, lastStored,
                   kind, body, sid, res, slot>>

(* rate_limiter.py:75-81: the oldest entry gives retry_after *)
RetryAfter(members, tnow) ==
    IF members = {} THEN rate_limit_window_seconds
    ELSE Max2(1, Min(members) + rate_limit_window_seconds - tnow)

(* rate_limiter.py:77-95: ZRANGE rate_key 0 0 WITHSCORES, then the 429 *)
Zrange(r) ==
    /\ pc[r] = "zrange"
    /\ busy = 0
    /\ IF ~up
       THEN AdmitDegraded(r)
       ELSE /\ Reject(r, "rate_limit_exceeded", RetryAfter(rate.members, t[r]))
            /\ UNCHANGED <<cnt, held>>
    /\ health' = <<>>
    /\ UNCHANGED <<envVars, pool, fixedVars, started, storeVars, kind, body, sid,
                   res, slot>>

(* An admission that records nothing in the window. *)
AddNothing(members, tnow) == members

(* ZADD of the member str(now) with score now *)
AddEntry(members, tnow) == members \cup {tnow}

(* rate_limiter.py:114 ZADD rate_key {str(now): now} *)
Zadd(r) ==
    /\ pc[r] = "zadd"
    /\ busy = 0
    /\ IF ~up
       THEN /\ AdmitDegraded(r)
            /\ UNCHANGED rate
       ELSE /\ rate' = [rate EXCEPT !.members = AddEntry(@, t[r])]
            /\ Goto(r, "expire_rate")
    /\ health' = <<>>
    /\ UNCHANGED <<envVars, pool, fixedVars, started, conc, cache, lastStored,
                   kind, body, sid, res, slot>>

(* rate_limiter.py:115 EXPIRE rate_key window + 60 *)
ExpireRate(r) ==
    /\ pc[r] = "expire_rate"
    /\ busy = 0
    /\ IF ~up
       THEN /\ AdmitDegraded(r)
            /\ UNCHANGED rate
       ELSE /\ rate' = IF rate.members = {} THEN rate
                       ELSE [rate EXCEPT !.exp =
                               now + rate_limit_window_seconds + RateKeySlack]
            /\ Goto(r, "incr")
    /\ health' = <<>>
    /\ UNCHANGED <<envVars, pool, fixedVars, started, conc, cache, lastStored,
                   kind, body, sid, res, slot>>

(* rate_limiter.py:118 INCR concurrent_key *)
Incr(r) ==
    /\ pc[r] = "incr"
    /\ busy = 0
    /\ IF ~up
       THEN /\ AdmitDegraded(r)
            /\ UNCHANGED <<conc, slot>>
       ELSE /\ conc' = IF conc.exists THEN [conc EXCEPT !.val = @ + 1]
                       ELSE [exists |-> TRUE, val |-> 1, exp |-> NoTTL]
            /\ slot' = [slot EXCEPT ![r] = TRUE]
            /\ Goto(r, "expire_conc")
    /\ health' = <<>>
    /\ UNCHANGED <<envVars, pool, fixedVars, started, rate, cache, lastStored,
                   kind, body, sid, res>>

(* rate_limiter.py:119 EXPIRE concurrent_key 120, then the check returns *)
ExpireConc(r) ==
    /\ pc[r] = "expire_conc"
    /\ busy = 0
    /\ IF ~up
       THEN /\ AdmitDegraded(r)
            /\ UNCHANGED conc
       ELSE /\ conc' = IF conc.exists THEN [conc EXCEPT !.exp = now + ConcTTL]
                       ELSE conc
            /\ Admit(r, kind[r], trace[r])
    /\ health' = <<>>
    /\ UNCHANGED <<envVars, pool, fixedVars, started, rate, cache, lastStored,
                   kind, body, sid, res, slot>>

---------------------------------------------------------------------------
(* The pipeline of simulate.py:50-170 and optimize.py:29-56 *)

(* What run_nec2c does for a body (nec_runner.py:24-123): it raises        *)
(* NecExecutionError, or an unexpected exception escapes, or it returns    *)
(* output text: garbled, or holding 0..steps frequency blocks.             *)
RunOutcomes(b) ==
    { [type |-> "nec_error", blocks |-> 0],
      [type |-> "exception", blocks |-> 0],
      [type |-> "garbled", blocks |-> 0] }
    \cup { [type |-> "output", blocks |-> n] : n \in 0..b.steps }

(* simulate.py:86-90 parse_nec_output: one FrequencyResult per block *)
parse_nec_output(o) == [ i \in 1..o.blocks |-> BlockOf(i) ]

(* simulate.py:64-72: the deck is built and run_nec2c is called *)
Miss(r, key) ==
    /\ pc' = [pc EXCEPT ![r] = "running"]
    /\ busy' = r
    /\ trace' = [trace EXCEPT ![r] = @ \o <<"lookup", "miss", "build", "run">>]
    /\ UNCHANGED resp

(* A handler that finds the cached record and runs the solver all the same. *)
HitStillRuns(r, key) ==
    /\ pc' = [pc EXCEPT ![r] = "running"]
    /\ busy' = r
    /\ trace' = [trace EXCEPT ![r] = @ \o <<"lookup", "hit", "build", "run">>]
    /\ UNCHANGED resp

(* simulate.py:56-62: the cached record goes back with fresh metadata *)
Hit(r, key) ==
    /\ resp' = [resp EXCEPT ![r] =
                  Ok200(HitResult(Deserialize(cache[key].data), sid[r]))]
    /\ pc' = [pc EXCEPT ![r] = "release"]
    /\ trace' = [trace EXCEPT ![r] = @ \o <<"lookup", "hit">>]
    /\ UNCHANGED busy

(* simulate.py:52-54, cache.py:66-81: GET of the cache key; an absent key  *)
(* or any store error is a miss.                                           *)
Lookup(r) ==
    /\ pc[r] = "lookup"
    /\ busy = 0
    /\ LET key == compute_cache_key(body[r])
       IN  IF up /\ cache[key].data # <<>> THEN Hit(r, key) ELSE Miss(r, key)
    /\ pool' = (pool \/ up)
    /\ health' = <<>>
    /\ UNCHANGED <<envVars, fixedVars, started, storeVars, kind, body, sid, t,
                   cnt, res, slot, held>>

(* A handler whose error paths return without the finally block. *)
FailNoFinally(r, code, tag, steps) ==
    /\ resp' = [resp EXCEPT ![r] = ErrResp(code, tag, 0)]
    /\ pc' = [pc EXCEPT ![r] = "done"]
    /\ trace' = [trace EXCEPT ![r] = @ \o steps]
    /\ UNCHANGED res

(* simulate.py:73-81, 91-105, 122-130, 168-170: the handler leaves with an *)
(* error; the finally block is still to run.                               *)
Fail(r, code, tag, steps) ==
    /\ resp' = [resp EXCEPT ![r] = ErrResp(code, tag, 0)]
    /\ pc' = [pc EXCEPT ![r] = "release"]
    /\ trace' = [trace EXCEPT ![r] = @ \o steps]
    /\ UNCHANGED res

(* A handler without the check of simulate.py:122: a run that produced no  *)
(* frequency point goes on to the store like any other.                    *)
SimulateEndUnchecked(r) ==
    /\ pc[r] = "running"
    /\ kind[r] = "simulate"
    /\ busy = r
    /\ busy' = 0
    /\ \E o \in RunOutcomes(body[r]) :
        LET fd == parse_nec_output(o)
        IN  CASE o.type = "nec_error" -> Fail(r, 422, "simulation_failed", <<>>)
              [] o.type = "exception" -> Fail(r, 500, "internal_error", <<>>)
              [] o.type = "garbled" -> Fail(r, 500, "parse_failed", <<"parse">>)
              [] OTHER ->
                     /\ res' = [res EXCEPT ![r] = NewResult(sid[r], body[r], 1, fd)]
                     /\ pc' = [pc EXCEPT ![r] = "store"]
                     /\ trace' = [trace EXCEPT ![r] = Append(@, "parse")]
                     /\ UNCHANGED resp
    /\ health' = <<>>
    /\ UNCHANGED <<envVars, pool, fixedVars, started, storeVars, kind, body,
                   sid, t, cnt, slot, held>>

(* simulate.py:70-162: run_nec2c ends; its output is parsed and the result *)
(* assembled, or the handler leaves with an error.                         *)
SimulateEnd(r) ==
    /\ pc[r] = "running"
    /\ kind[r] = "simulate"
    /\ busy = r
    /\ busy' = 0
    /\ \E o \in RunOutcomes(body[r]) :
        LET fd == parse_nec_output(o)
        IN  CASE o.type = "nec_error" -> Fail(r, 422, "simulation_failed", <<>>)
              [] o.type = "exception" -> Fail(r, 500, "internal_error", <<>>)
              [] o.type = "garbled" -> Fail(r, 500, "parse_failed", <<"parse">>)
              [] o.type = "output" /\ fd = <<>> ->
                     Fail(r, 422, "no_results", <<"parse">>)
              [] OTHER ->
                     /\ res' = [res EXCEPT ![r] = NewResult(sid[r], body[r], 1, fd)]
                     /\ pc' = [pc EXCEPT ![r] = "store"]
                     /\ trace' = [trace EXCEPT ![r] = Append(@, "parse")]
                     /\ UNCHANGED resp
    /\ health' = <<>>
    /\ UNCHANGED <<envVars, pool, fixedVars, started, storeVars, kind, body,
                   sid, t, cnt, slot, held>>

(* optimize.py:37-54: run_optimization ends *)
OptimizeEnd(r) ==
    /\ pc[r] = "running"
    /\ kind[r] = "optimize"
    /\ busy = r
    /\ busy' = 0
    /\ \E raised \in BOOLEAN :
        resp' = [resp EXCEPT ![r] =
                    IF raised THEN ErrResp(500, "optimization_failed", 0)
                    ELSE Ok200(NoResult)]
    /\ pc' = [pc EXCEPT ![r] = "release"]
    /\ health' = <<>>
    /\ UNCHANGED <<envVars, pool, fixedVars, started, storeVars, kind, body,
                   sid, t, cnt, res, trace, slot, held>>

(* A store that keeps the entry it finds (SET NX). *)
SetexIfAbsent(key, result) ==
    /\ cache' = IF cache[key].data # <<>> THEN cache
                ELSE [cache EXCEPT ![key] =
                        [data |-> Serialize(result),
                         exp |-> now + CACHE_TTL_SECONDS]]
    /\ lastStored' = [lastStored EXCEPT ![key] = result]

(* The SETEX of cache.py:92 *)
Setex(key, result) ==
    /\ cache' = [cache EXCEPT ![key] =
                    [data |-> Serialize(result), exp |-> now + CACHE_TTL_SECONDS]]
    /\ lastStored' = [lastStored EXCEPT ![key] = result]

(* simulate.py:164-166, cache.py:84-97: the result is stored (a store      *)
(* error is logged) and returned.                                          *)
Store(r) ==
    /\ pc[r] = "store"
    /\ busy = 0
    /\ IF up THEN Setex(compute_cache_key(body[r]), res[r])
             ELSE UNCHANGED <<cache, lastStored>>
    /\ pool' = (pool \/ up)
    /\ resp' = [resp EXCEPT ![r] = Ok200(res[r])]
    /\ pc' = [pc EXCEPT ![r] = "release"]
    /\ trace' = [trace EXCEPT ![r] = Append(@, "store")]
    /\ health' = <<>>
    /\ UNCHANGED <<envVars, fixedVars, started, busy, rate, conc, kind, body,
                   sid, t, cnt, res, slot, held>>

(* A release that counts up. *)
DecrUp(c) ==
    IF c.exists THEN [c EXCEPT !.val = @ + 1]
    ELSE [exists |-> TRUE, val |-> 1, exp |-> NoTTL]

(* The DECR of rate_limiter.py:137 *)
Decr(c) ==
    IF c.exists THEN [c EXCEPT !.val = @ - 1]
    ELSE [exists |-> TRUE, val |-> -1, exp |-> NoTTL]

(* simulate.py:168-170 / optimize.py:55-56 with rate_limiter.py:127-137:   *)
(* the finally block calls release_concurrent, which sends DECR.           *)
Release(r) ==
    /\ pc[r] = "release"
    /\ busy = 0
    /\ IF up
       THEN /\ conc' = Decr(conc)
            /\ pc' = [pc EXCEPT ![r] = IF conc'.val < 0 THEN "reset" ELSE "done"]
       ELSE /\ pc' = [pc EXCEPT ![r] = "done"]
            /\ UNCHANGED conc
    /\ pool' = (pool \/ up)
    /\ slot' = [slot EXCEPT ![r] = FALSE]
    /\ trace' = [trace EXCEPT ![r] = Append(@, "release")]
    /\ health' = <<>>
    /\ UNCHANGED <<envVars, fixedVars, started, busy, rate, cache, lastStored,
                   kind, body, sid, t, cnt, res, resp, held>>

(* rate_limiter.py:138-140: a negative counter is set back to 0, EX 120 *)
Reset(r) ==
    /\ pc[r] = "reset"
    /\ busy = 0
    /\ conc' = IF up THEN [exists |-> TRUE, val |-> 0, exp |-> now + ConcTTL]
               ELSE conc
    /\ pc' = [pc EXCEPT ![r] = "done"]
    /\ health' = <<>>
    /\ UNCHANGED <<envVars, pool, fixedVars, started, busy, rate, cache,
                   lastStored, kind, body, sid, t, cnt, res, resp, trace, slot,
                   held>>

(* The response has been sent; the activation is over. *)
Finish(r) ==
    /\ pc[r] = "done"
    /\ pc' = [pc EXCEPT ![r] = "idle"]
    /\ kind' = [kind EXCEPT ![r] = "simulate"]
    /\ body' = [body EXCEPT ![r] = NoBody]
    /\ sid' = [sid EXCEPT ![r] = 0]
    /\ t' = [t EXCEPT ![r] = 0]
    /\ cnt' = [cnt EXCEPT ![r] = NoCnt]
    /\ res' = [res EXCEPT ![r] = NoResult]
    /\ resp' = [resp EXCEPT ![r] = NoResp]
    /\ trace' = [trace EXCEPT ![r] = <<>>]
    /\ held' = [held EXCEPT ![r] = 0]
    /\ health' = <<>>
    /\ UNCHANGED <<envVars, pool, fixedVars, started, busy, storeVars, slot>>

(* health.py:25-47: get_redis() and PING; any failure reports false *)
HealthCheck ==
    /\ busy = 0
    /\ health' = <<up>>
    /\ pool' = (pool \/ up)
    /\ UNCHANGED <<envVars, fixedVars, started, busy, storeVars, reqVars>>

(* Time passes. *)
Tick ==
    /\ now < MaxTime
    /\ ClockTo(now + 1)
    /\ health' = <<>>
    /\ UNCHANGED <<up, faults, pool, fixedVars, started, busy, reqVars>>

(* The store becomes unreachable, and reachable again. *)
StoreDown ==
    /\ up
    /\ faults < MaxFaults
    /\ up' = FALSE
    /\ faults' = faults + 1
    /\ health' = <<>>
    /\ UNCHANGED <<now, pool, fixedVars, started, busy, storeVars, reqVars>>

StoreUp ==
    /\ ~up
    /\ up' = TRUE
    /\ health' = <<>>
    /\ UNCHANGED <<now, faults, pool, fixedVars, started, busy, storeVars,
                   reqVars>>

AllIdle == \A q \in Slots : pc[q] = "idle"

(* A client that sends a request only after the answer to the one before. *)
StartSerial(r) == AllIdle /\ Start(r)

Next ==
    \/ \E r \in Slots : StartSerial(r)
    \/ \E r \in Slots : Pipe(r)
    \/ \E r \in Slots : Zrange(r)
    \/ \E r \in Slots : Zadd(r)
    \/ \E r \in Slots : ExpireRate(r)
    \/ \E r \in Slots : Incr(r)
    \/ \E r \in Slots : ExpireConc(r)
    \/ \E r \in Slots : Lookup(r)
    \/ \E r \in Slots : SimulateEnd(r)
    \/ \E r \in Slots : OptimizeEnd(r)
    \/ \E r \in Slots : Store(r)
    \/ \E r \in Slots : Release(r)
    \/ \E r \in Slots : Reset(r)
    \/ \E r \in Slots : Finish(r)
    \/ HealthCheck
    \/ Tick
    \/ StoreDown
    \/ StoreUp

Spec == Init /\ [][Next]_vars

(* Two requests with equal bodies in flight together, the store reachable. *)
InitConcurrent ==
    /\ InitRequests
    /\ up = TRUE
    /\ pool = TRUE
    /\ faults = 0
    /\ enabled \in BOOLEAN
    /\ bodies \in { {b} : b \in Bodies }

NextConcurrent ==
    \/ \E r \in Slots : Start(r)
    \/ \E r \in Slots : Pipe(r)
    \/ \E r \in Slots : Zrange(r)
    \/ \E r \in Slots : Zadd(r)
    \/ \E r \in Slots : ExpireRate(r)
    \/ \E r \in Slots : Incr(r)
    \/ \E r \in Slots : ExpireConc(r)
    \/ \E r \in Slots : Lookup(r)
    \/ \E r \in Slots : SimulateEnd(r)
    \/ \E r \in Slots : OptimizeEnd(r)
    \/ \E r \in Slots : Store(r)
    \/ \E r \in Slots : Release(r)
    \/ \E r \in Slots : Reset(r)
    \/ \E r \in Slots : Finish(r)
    \/ Tick

SpecConcurrent == InitConcurrent /\ [][NextConcurrent]_vars

---------------------------------------------------------------------------
(* run_nec2c (nec_runner.py:24-123), one call at a time.  A step is one    *)
(* file-system or process operation with the code up to the next one.      *)

RunIds == 1..NumRunIds

workdir(id) == <<id, "workdir">>
input_file(id) == <<id, "input.nec">>
output_file(id) == <<id, "input.out">>

(* What the caller receives: the output text, a NecExecutionError, or      *)
(* another exception.                                                      *)
NecErrors == {"timeout", "nonzero_exit", "no_output_file", "geometry", "segment"}
Outcomes == {"output", "exception"} \cup NecErrors

(* A runner without the finally block. *)
LeaveNoCleanup(o) ==
    /\ pending' = o
    /\ rpc' = "end"

(* The try block ends with outcome o; the finally block starts. *)
Leave(o) ==
    /\ pending' = o
    /\ rpc' = "rm_out"

(* nec_runner.py:43-46 *)
Call ==
    /\ rpc = "idle"
    /\ runs < MaxRuns
    /\ runs' = runs + 1
    /\ \E id \in RunIds : run_id' = id
    /\ rpc' = "mkdir"
    /\ pending' = ""
    /\ removed' = <<>>
    /\ logged' = FALSE
    /\ ran' = NotRun
    /\ UNCHANGED <<fs, outcome, used, pipelineVars>>

(* nec_runner.py:50 workdir.mkdir(parents=True, exist_ok=True) *)
Mkdir ==
    /\ rpc = "mkdir"
    /\ \/ /\ fs' = fs \cup {workdir(run_id)}
          /\ rpc' = "write"
          /\ UNCHANGED pending
       \/ /\ Leave("exception")
          /\ UNCHANGED fs
    /\ UNCHANGED <<runs, run_id, outcome, removed, logged, ran, used,
                   pipelineVars>>

(* nec_runner.py:53 input_file.write_text(card_deck, encoding="ascii") *)
WriteDeck ==
    /\ rpc = "write"
    /\ \/ /\ fs' = fs \cup {input_file(run_id)}
          /\ rpc' = "exec"
          /\ UNCHANGED pending
       \/ /\ Leave("exception")
          /\ \E created \in BOOLEAN :
               fs' = IF created THEN fs \cup {input_file(run_id)} ELSE fs
    /\ UNCHANGED <<runs, run_id, outcome, removed, logged, ran, used,
                   pipelineVars>>

(* nec_runner.py:68-87, 107-111: how the call goes on after subprocess.run *)
(* ended: TimeoutExpired, the return code, then the output file.           *)
ExecResult(end, has_out) ==
    CASE end = "oserror" -> "exception"
      [] end = "timeout" -> "timeout"
      [] end = "exit1" -> "nonzero_exit"
      [] ~has_out -> "no_output_file"
      [] OTHER -> "read"

(* nec_runner.py:89-105: read_text, then the two markers in this order *)
ScanResult(read_failed, geometry, segment) ==
    IF read_failed THEN "exception"
    ELSE IF geometry THEN "geometry"
    ELSE IF segment THEN "segment"
    ELSE "output"

(* nec_runner.py:58-87, 107-111: subprocess.run and the checks on it *)
Exec ==
    /\ rpc = "exec"
    /\ \E wrote \in BOOLEAN,
          end \in {"exit0", "exit1", "timeout", "oserror"} :
        LET has_out == output_file(run_id) \in fs'
            next == ExecResult(end, has_out)
        IN
        /\ fs' = IF wrote /\ end # "oserror"
                 THEN fs \cup {output_file(run_id)} ELSE fs
        /\ ran' = [ran EXCEPT !.end = end, !.has_out = has_out]
        /\ IF next = "read"
           THEN /\ rpc' = "read"
                /\ UNCHANGED pending
           ELSE Leave(next)
    /\ UNCHANGED <<runs, run_id, outcome, removed, logged, used, pipelineVars>>

(* nec_runner.py:89-105: read_text and the scan for the two markers *)
ReadOutput ==
    /\ rpc = "read"
    /\ \E geometry \in BOOLEAN, segment \in BOOLEAN, failed \in BOOLEAN :
        /\ ran' = [ran EXCEPT !.read_failed = failed,
                              !.geometry = ~failed /\ geometry,
                              !.segment = ~failed /\ segment]
        /\ Leave(ScanResult(failed, geometry, segment))
    /\ UNCHANGED <<runs, run_id, fs, outcome, removed, logged, used,
                   pipelineVars>>

(* One removal of the finally block: a path that exists is removed, or the *)
(* removal raises OSError, which ends the cleanup with a warning           *)
(* (nec_runner.py:122-123).                                                *)
Remove(path, next) ==
    IF path \notin fs
    THEN /\ rpc' = next
         /\ UNCHANGED <<fs, removed, logged>>
    ELSE \/ /\ fs' = fs \ {path}
            /\ removed' = Append(removed, path[2])
            /\ rpc' = next
            /\ UNCHANGED logged
         \/ /\ logged' = TRUE
            /\ rpc' = "end"
            /\ UNCHANGED <<fs, removed>>

(* nec_runner.py:116-117 *)
RemoveOutput ==
    /\ rpc = "rm_out"
    /\ Remove(output_file(run_id), "rm_in")
    /\ UNCHANGED <<runs, run_id, pending, outcome, ran, used, pipelineVars>>

(* nec_runner.py:118-119 *)
RemoveInput ==
    /\ rpc = "rm_in"
    /\ Remove(input_file(run_id), "rm_dir")
    /\ UNCHANGED <<runs, run_id, pending, outcome, ran, used, pipelineVars>>

(* nec_runner.py:120-121 *)
RemoveWorkdir ==
    /\ rpc = "rm_dir"
    /\ Remove(workdir(run_id), "end")
    /\ UNCHANGED <<runs, run_id, pending, outcome, ran, used, pipelineVars>>

(* The call returns or raises what the try block ended with. *)
Return ==
    /\ rpc = "end"
    /\ outcome' = pending
    /\ rpc' = "idle"
    /\ used' = used \cup {run_id}
    /\ UNCHANGED <<runs, run_id, fs, pending, removed, logged, ran,
                   pipelineVars>>

InitRunner ==
    /\ InitRequests
    /\ up = TRUE
    /\ pool = TRUE
    /\ faults = 0
    /\ enabled = FALSE
    /\ bodies = Bodies

NextRunner ==
    \/ Call
    \/ Mkdir
    \/ WriteDeck
    \/ Exec
    \/ ReadOutput
    \/ RemoveOutput
    \/ RemoveInput
    \/ RemoveWorkdir
    \/ Return

SpecRunner == InitRunner /\ [][NextRunner]_vars

---------------------------------------------------------------------------
(* Validation of a SimulationRequest (models/simulation.py:61-136,         *)
(* models/antenna.py:8-57), as the framework runs it before the handler.   *)

(* models/antenna.py:8-18: a wire, reduced to its tag, its segments and    *)
(* whether its two endpoints are closer than 1e-6.                         *)
Wire == [tag : 1..MaxTag, segments : 1..MaxSegs, coincident : BOOLEAN]

(* models/antenna.py:49-55: an excitation as sent, whatever it refers to *)
Excitation == [wire_tag : 1..(MaxTag + 1), segment : 0..(MaxSegs + 1)]

SeqsUpTo(S, n) == UNION { [1..k -> S] : k \in 1..n }

(* models/simulation.py:68-69: at least one wire, at least one excitation *)
SimulationRequest ==
    [wires : SeqsUpTo(Wire, MaxWires), excitations : SeqsUpTo(Excitation, 1)]

(* models/antenna.py:20-28 validate_not_zero_length, for every wire, and   *)
(* the field constraint segment >= 1 of models/antenna.py:53               *)
FieldError(req) ==
    IF \E i \in 1..Len(req.wires) : req.wires[i].coincident
    THEN "zero_length"
    ELSE IF \E j \in 1..Len(req.excitations) : req.excitations[j].segment < 1
    THEN "segment_field"
    ELSE ""

(* A validator that accepts any number of segments. *)
TotalUnbounded(req) == TRUE

(* models/simulation.py:97-102 *)
TotalWithin(req) ==
    SumSeq([i \in 1..Len(req.wires) |-> req.wires[i].segments])
        <= max_total_segments

(* models/simulation.py:107-108: wire_map = {w.tag: w for w in wires}; a   *)
(* later wire replaces an earlier one of the same tag.                     *)
wire_tags(req) == { req.wires[i].tag : i \in 1..Len(req.wires) }

wire_map(req) ==
    [tg \in wire_tags(req) |->
        LET last == CHOOSE i \in 1..Len(req.wires) :
                        /\ req.wires[i].tag = tg
                        /\ \A k \in 1..Len(req.wires) :
                              req.wires[k].tag = tg => k <= i
        IN  req.wires[last]]

(* models/simulation.py:109-121: the loop over the excitations; the first  *)
(* that fails raises.                                                      *)
RECURSIVE ExcitationError(_, _)
ExcitationError(req, j) ==
    IF j > Len(req.excitations) THEN ""
    ELSE LET ex == req.excitations[j]
         IN  IF ex.wire_tag \notin wire_tags(req) THEN "missing_tag"
             ELSE IF \/ ex.segment < 1
                     \/ ex.segment > wire_map(req)[ex.wire_tag].segments
             THEN "segment_range"
             ELSE ExcitationError(req, j + 1)

Raise(err) ==
    /\ vpc' = "rejected"
    /\ verr' = err

(* The framework parses the body of a POST /api/v1/simulate *)
Receive ==
    /\ vpc = "idle"
    /\ vreq' \in SimulationRequest
    /\ vpc' = "fields"
    /\ UNCHANGED <<verr, handled, besidesValidate>>

(* Field validation, with the validators of each Wire *)
ValidateFields ==
    /\ vpc = "fields"
    /\ IF FieldError(vreq) # "" THEN Raise(FieldError(vreq))
       ELSE vpc' = "total" /\ UNCHANGED verr
    /\ UNCHANGED <<vreq, handled, besidesValidate>>

(* models/simulation.py:95-103 validate_total_segments *)
ValidateTotalSegments ==
    /\ vpc = "total"
    /\ IF TotalWithin(vreq) THEN vpc' = "refs" /\ UNCHANGED verr
       ELSE Raise("total_segments")
    /\ UNCHANGED <<vreq, handled, besidesValidate>>

(* models/simulation.py:105-136 validate_excitations_reference_valid_wires *)
ValidateExcitations ==
    /\ vpc = "refs"
    /\ IF ExcitationError(vreq, 1) # "" THEN Raise(ExcitationError(vreq, 1))
       ELSE vpc' = "accepted" /\ UNCHANGED verr
    /\ UNCHANGED <<vreq, handled, besidesValidate>>

(* simulate.py:21-35: the handler is entered with the validated body; the  *)
(* deck, the solver run and the cache entry all come after this.           *)
EnterHandler ==
    /\ vpc = "accepted"
    /\ vpc' = "handler"
    /\ handled' = TRUE
    /\ UNCHANGED <<vreq, verr, besidesValidate>>

InitValidate ==
    /\ InitRequests
    /\ up = TRUE
    /\ pool = TRUE
    /\ faults = 0
    /\ enabled = FALSE
    /\ bodies = Bodies

NextValidate ==
    \/ Receive
    \/ ValidateFields
    \/ ValidateTotalSegments
    \/ ValidateExcitations
    \/ EnterHandler

SpecValidate == InitValidate /\ [][NextValidate]_vars

---------------------------------------------------------------------------
(* parse_nec_output (nec_output.py:195-354), one line of the output at a   *)
(* time.  A line is reduced to what the patterns of nec_output.py:16-70    *)
(* find in it, and is named by its line number, so that a result shows     *)
(* which lines it was built from.                                          *)

LineKinds ==
    { "frequency", "input_header", "impedance", "currents_header", "current",
      "pattern_header", "pattern", "radiated", "input_power", "blank",
      "text" }

(* nec_output.py:27-34, 43-49, 64-70: which kinds of line the three row    *)
(* patterns match with search().  An impedance row is two integers and     *)
(* nine numbers, so the current-row and pattern-row patterns match it too; *)
(* a current row is matched by the pattern-row pattern.                    *)
MatchesImpedance(k) == k = "impedance"
MatchesCurrent(k) == k \in {"current", "impedance"}
MatchesPattern(k) == k \in {"pattern", "current", "impedance"}

(* nec_output.py:357-445 _build_frequency_result, by the lines it is given *)
BuildFrequencyResult(p, cc) ==
    [ frequency |-> p.current_freq, impedance |-> p.current_impedance,
      pattern |-> p.current_pattern_data,
      power_radiated |-> p.current_power_radiated,
      power_input |-> p.current_power_input,
      currents |-> IF cc THEN p.current_currents ELSE <<>> ]

(* nec_output.py:224-231, 345-352: the block read so far becomes a result  *)
(* if it has a frequency and an impedance.                                 *)
Flush(p, cc) ==
    IF p.current_freq # 0 /\ p.current_impedance # 0
    THEN Append(p.results, BuildFrequencyResult(p, cc))
    ELSE p.results

(* A header that starts the next block and keeps the impedance read. *)
KeepImpedance(p, i) ==
    [p EXCEPT !.current_freq = i,
              !.current_pattern_data = <<>>,
              !.current_power_radiated = 0,
              !.current_power_input = 0,
              !.current_currents = <<>>,
              !.in_input_params = FALSE,
              !.in_pattern_section = FALSE,
              !.in_current_section = FALSE]

(* nec_output.py:233-241: a FREQUENCY header starts the next block *)
StartBlock(p, i) ==
    [p EXCEPT !.current_freq = i,
              !.current_impedance = 0,
              !.current_pattern_data = <<>>,
              !.current_power_radiated = 0,
              !.current_power_input = 0,
              !.current_currents = <<>>,
              !.in_input_params = FALSE,
              !.in_pattern_section = FALSE,
              !.in_current_section = FALSE]

(* nec_output.py:334-343: the two power lines *)
PowerLines(p, k, i) ==
    IF k = "radiated" THEN [p EXCEPT !.current_power_radiated = i]
    ELSE IF k = "input_power" THEN [p EXCEPT !.current_power_input = i]
    ELSE p

(* The pattern header taken without leaving the other sections *)
PatternKeepsOthers(p, k, i) ==
    IF k = "pattern_header"
    THEN [p EXCEPT !.in_pattern_section = TRUE, !.skip_header_lines = 3]
    ELSE IF ~p.in_pattern_section THEN PowerLines(p, k, i)
    ELSE IF p.skip_header_lines > 0
    THEN [p EXCEPT !.skip_header_lines = @ - 1]
    ELSE IF MatchesPattern(k)
    THEN [p EXCEPT !.current_pattern_data = Append(@, i)]
    ELSE IF k = "blank"
    THEN PowerLines([p EXCEPT !.in_pattern_section = FALSE], k, i)
    ELSE PowerLines(p, k, i)

(* nec_output.py:310-332: the pattern header and the pattern rows *)
PatternSection(p, k, i) ==
    IF k = "pattern_header"
    THEN [p EXCEPT !.in_pattern_section = TRUE, !.in_input_params = FALSE,
                   !.in_current_section = FALSE, !.skip_header_lines = 3]
    ELSE IF ~p.in_pattern_section THEN PowerLines(p, k, i)
    ELSE IF p.skip_header_lines > 0
    THEN [p EXCEPT !.skip_header_lines = @ - 1]
    ELSE IF MatchesPattern(k)
    THEN [p EXCEPT !.current_pattern_data = Append(@, i)]
    ELSE IF k = "blank"
    THEN PowerLines([p EXCEPT !.in_pattern_section = FALSE], k, i)
    ELSE PowerLines(p, k, i)

(* nec_output.py:270-308: the currents header and the current rows *)
CurrentSection(p, k, i, cc) ==
    IF cc /\ k = "currents_header"
    THEN [p EXCEPT !.in_current_section = TRUE, !.in_pattern_section = FALSE,
                   !.in_input_params = FALSE, !.skip_header_lines = 3]
    ELSE IF ~p.in_current_section THEN PatternSection(p, k, i)
    ELSE IF p.skip_header_lines > 0
    THEN [p EXCEPT !.skip_header_lines = @ - 1]
    ELSE IF MatchesCurrent(k)
    THEN [p EXCEPT !.current_currents = Append(@, i)]
    ELSE IF k = "blank"
    THEN PatternSection([p EXCEPT !.in_current_section = FALSE], k, i)
    ELSE PatternSection(p, k, i)

(* nec_output.py:243-268: the input-parameters header and the first        *)
(* impedance row after its two header lines                                *)
InputParams(p, k, i, cc) ==
    IF k = "input_header"
    THEN [p EXCEPT !.in_input_params = TRUE, !.in_pattern_section = FALSE,
                   !.in_current_section = FALSE, !.skip_header_lines = 2]
    ELSE IF ~p.in_input_params THEN CurrentSection(p, k, i, cc)
    ELSE IF p.skip_header_lines > 0
    THEN [p EXCEPT !.skip_header_lines = @ - 1]
    ELSE IF MatchesImpedance(k)
    THEN [p EXCEPT !.current_impedance = i, !.in_input_params = FALSE]
    ELSE IF k = "blank" THEN p
    ELSE CurrentSection(p, k, i, cc)

(* nec_output.py:220-343: the body of the loop for line i of kind k *)
Line(p, k, i, cc) ==
    IF k = "frequency"
    THEN StartBlock([p EXCEPT !.results = Flush(p, cc)], i)
    ELSE InputParams(p, k, i, cc)

(* History: the blocks of the output, each by its header line, whether an  *)
(* impedance row was parsed in it, and its last two power lines.           *)
NewBlock(i) ==
    [header |-> i, impedance_row |-> FALSE, radiated |-> 0, input_power |-> 0]

Noted(p, k, i) ==
    IF k = "frequency" THEN Append(blocks, NewBlock(i))
    ELSE IF blocks = <<>> THEN blocks
    ELSE LET n == Len(blocks)
         IN  IF k = "radiated" THEN [blocks EXCEPT ![n].radiated = i]
             ELSE IF k = "input_power"
             THEN [blocks EXCEPT ![n].input_power = i]
             ELSE IF /\ k = "impedance"
                     /\ p.in_input_params
                     /\ p.skip_header_lines = 0
             THEN [blocks EXCEPT ![n].impedance_row = TRUE]
             ELSE blocks

(* nec_output.py:195-218: the call *)
ParseStart ==
    /\ ppc = "idle"
    /\ ppc' = "lines"
    /\ compute_currents' \in BOOLEAN
    /\ parser' = NoLocals
    /\ lineno' = 0
    /\ blocks' = <<>>
    /\ UNCHANGED besidesParser

(* nec_output.py:220-343: one pass of the loop *)
ParseLine ==
    /\ ppc = "lines"
    /\ lineno < MaxLines
    /\ lineno' = lineno + 1
    /\ \E k \in LineKinds :
        /\ parser' = Line(parser, k, lineno', compute_currents)
        /\ blocks' = Noted(parser, k, lineno')
    /\ UNCHANGED <<ppc, compute_currents, besidesParser>>

(* nec_output.py:345-354: the end of the output *)
ParseEnd ==
    /\ ppc = "lines"
    /\ ppc' = "done"
    /\ parser' = [parser EXCEPT !.results = Flush(parser, compute_currents)]
    /\ UNCHANGED <<lineno, compute_currents, blocks, besidesParser>>

InitParser ==
    /\ InitRequests
    /\ up = TRUE
    /\ pool = TRUE
    /\ faults = 0
    /\ enabled = FALSE
    /\ bodies = Bodies

NextParser ==
    \/ ParseStart
    \/ ParseLine
    \/ ParseEnd

SpecParser == InitParser /\ [][NextParser]_vars

---------------------------------------------------------------------------
(* run_optimization (optimizer.py:162-289) around minimize(objective_fn,   *)
(* method="Nelder-Mead", options={"maxiter": max_iterations, ...}).  The   *)
(* method evaluates the n + 1 points of its first simplex, then iterates   *)
(* while its iteration counter, which starts at 1, is below maxiter; no    *)
(* maxfev is given, so evaluations are not limited.  Costs are reduced to  *)
(* their kind; which step the method takes, and whether it has converged,  *)
(* depends on the costs and is left open.                                  *)

(* optimizer.py:54-159 _evaluate_objective: a cost, the penalty 1e6, or an *)
(* exception (the lines 69-90 are outside its try blocks, and run_nec2c    *)
(* lets through what is not a NecExecutionError).                          *)
Evaluations == {"cost", "penalty", "raise"}

(* What can happen inside one evaluation (optimizer.py:63-106):            *)
(* Wire raises; Excitation, GroundConfig, FrequencyConfig,            *)
(* SimulationRequest or build_card_deck raises; run_nec2c raises           *)
(* NecExecutionError; run_nec2c raises something else; parse_nec_output    *)
(* raises; the parse is empty; or none of these.                           *)
Happenings ==
    { "invalid_geometry", "request_invalid", "nec_error", "solver_exception",
      "parse_exception", "empty_parse", "none" }

(* optimizer.py:63-106: what _evaluate_objective does for each *)
evaluate_objective(h) ==
    CASE h \in {"invalid_geometry", "nec_error", "parse_exception",
                "empty_parse"} -> "penalty"
      [] h \in {"request_invalid", "solver_exception"} -> "raise"
      [] OTHER -> "cost"

(* The values the method may try for the variable, and the costs an        *)
(* evaluation may compute.                                                 *)
Points == (MinValue - 1)..(MaxValue + 1)
Costs == 1..MaxCost

(* optimizer.py:209-212, 255-257: max(b[0], min(b[1], v)) *)
Clamp(v) == Max2(MinValue, IF v <= MaxValue THEN v ELSE MaxValue)

(* optimizer.py:183-193: the starting value of a variable *)
StartingValue(initial_value, in_wires) ==
    IF initial_value # None THEN initial_value
    ELSE IF in_wires # None THEN in_wires
    ELSE (MinValue + MaxValue) \div 2

(* The evaluations of one iteration of the method: the reflected point     *)
(* alone; with an expanded or contracted point; with a contracted point    *)
(* and the n points of a shrunk simplex.                                   *)
StepEvaluations(n) == {1, 2, 2 + n}

(* optimizer.py:162-202, 237-249: the call, up to minimize's first simplex *)
RunOptimization ==
    /\ opc = "idle"
    /\ \E n \in 1..MaxVariables, m \in 1..MaxIterations :
        /\ n_variables' = n
        /\ max_iterations' = m
        /\ to_evaluate' = n + 1
    /\ \E initial_value \in Points \cup {None} :
        /\ wire_value' \in Points \cup {None}
        /\ x0' = StartingValue(initial_value, wire_value')
    /\ opc' = "simplex"
    /\ iteration_count' = 0
    /\ history' = <<>>
    /\ best_cost' = Infinity
    /\ evaluated' = ""
    /\ iterations' = 0
    /\ oresult' = NoOptimization
    /\ UNCHANGED besidesOptimizer

(* optimizer.py:204-235 objective_fn at the point x: the counter, the      *)
(* clamped values, the evaluation, best_cost, the history entry; an        *)
(* exception leaves minimize for the handler of line 280.                  *)
Evaluate(e, x, c) ==
    /\ iteration_count' = iteration_count + 1
    /\ IF e = "raise"
       THEN /\ opc' = "raised"
            /\ UNCHANGED <<history, to_evaluate, best_cost>>
       ELSE LET cost == IF e = "penalty" THEN Penalty ELSE c
            IN  /\ best_cost' = IF cost < best_cost THEN cost ELSE best_cost
                /\ history' = Append(history, [iteration |-> iteration_count',
                                               cost |-> cost,
                                               values |-> Clamp(x)])
                /\ to_evaluate' = to_evaluate - 1
                /\ UNCHANGED opc

(* minimize calls objective_fn: first at x0, then where the method goes *)
ObjectiveFn ==
    /\ opc \in {"simplex", "iterate"}
    /\ to_evaluate > 0
    /\ \E h \in Happenings, x \in Points, c \in Costs :
        /\ iteration_count = 0 => x = x0
        /\ evaluate_objective(h) # "cost" => c = 1
        /\ evaluated' = h
        /\ Evaluate(evaluate_objective(h), x, c)
    /\ UNCHANGED <<n_variables, max_iterations, iterations, oresult, x0,
                   wire_value, besidesOptimizer>>

(* minimize: the first simplex is evaluated, the iterations start at 1 *)
SimplexDone ==
    /\ opc = "simplex"
    /\ to_evaluate = 0
    /\ opc' = "iterate"
    /\ iterations' = 1
    /\ UNCHANGED <<n_variables, max_iterations, iteration_count, history,
                   to_evaluate, oresult, x0, wire_value, best_cost, evaluated,
                   besidesOptimizer>>

(* minimize: one more iteration of the method *)
Iterate ==
    /\ opc = "iterate"
    /\ to_evaluate = 0
    /\ iterations < max_iterations
    /\ to_evaluate' \in StepEvaluations(n_variables)
    /\ iterations' = iterations + 1
    /\ UNCHANGED <<opc, n_variables, max_iterations, iteration_count, history,
                   oresult, x0, wire_value, best_cost, evaluated,
                   besidesOptimizer>>

(* The lowest cost of a list of evaluations *)
LowestCost(h) == Min({h[k].cost : k \in 1..Len(h)})

(* optimizer.py:251-278: minimize returned, converged or out of            *)
(* iterations.  result.x is the best vertex of the simplex and result.fun  *)
(* its cost: the method replaces a vertex only by a better point, so this  *)
(* is a point of lowest cost among those evaluated.  The final values are  *)
(* clamped again and written into a copy of the wires.                     *)
ReturnResult ==
    /\ opc = "iterate"
    /\ to_evaluate = 0
    /\ \E success \in BOOLEAN, k \in 1..Len(history) :
        /\ ~success => iterations >= max_iterations
        /\ history[k].cost = LowestCost(history)
        /\ oresult' = [status |-> IF success THEN "success"
                                  ELSE "max_iterations",
                       iterations_used |-> iteration_count,
                       history |-> history,
                       final_cost |-> history[k].cost,
                       optimized_values |-> Clamp(history[k].values),
                       optimized_wires |->
                           IF wire_value = None THEN None
                           ELSE Clamp(history[k].values)]
    /\ opc' = "returned"
    /\ UNCHANGED <<n_variables, max_iterations, iteration_count, history,
                   iterations, to_evaluate, x0, wire_value, best_cost,
                   evaluated, besidesOptimizer>>

(* optimizer.py:280-289: the exception handler: the starting values and    *)
(* the wires of the request                                                *)
ReturnError ==
    /\ opc = "raised"
    /\ oresult' = [status |-> "error", iterations_used |-> iteration_count,
                   history |-> history,
                   final_cost |-> IF best_cost < Penalty THEN best_cost ELSE 0,
                   optimized_values |-> x0,
                   optimized_wires |-> wire_value]
    /\ opc' = "returned"
    /\ UNCHANGED <<n_variables, max_iterations, iteration_count, history,
                   iterations, to_evaluate, x0, wire_value, best_cost,
                   evaluated, besidesOptimizer>>

InitOptimizer ==
    /\ InitRequests
    /\ up = TRUE
    /\ pool = TRUE
    /\ faults = 0
    /\ enabled = FALSE
    /\ bodies = Bodies

NextOptimizer ==
    \/ RunOptimization
    \/ ObjectiveFn
    \/ SimplexDone
    \/ Iterate
    \/ ReturnResult
    \/ ReturnError

SpecOptimizer == InitOptimizer /\ [][NextOptimizer]_vars

---------------------------------------------------------------------------
(* _apply_variables (optimizer.py:28-51) on the wires of a request *)
---------------------------------------------------------------------------

(* models/optimization.py:50: a wire of an OptimizationRequest is a dict;  *)
(* two of its keys are kept, "tag" and the coordinate "x2"                *)
Fields == {"tag", "x2"}
WireDicts == [Fields -> 1..MaxTag]

(* models/optimization.py:22-38: field and linked_field are any strings,   *)
(* here the keys of the wire; "" stands for a linked_field of None         *)
Variables ==
    [wire_tag : 1..MaxTag, field : Fields,
     linked_wire_tag : (1..MaxTag) \cup {None},
     linked_field : Fields \cup {""}, link_factor : 1..2]

(* optimizer.py:37-40, 44-47: the first wire of the list with this tag, 0  *)
(* if there is none                                                        *)
FirstTagged(ws, tag) ==
    LET hits == {i \in 1..Len(ws) : ws[i]["tag"] = tag}
    IN  IF hits = {} THEN 0 ELSE Min(hits)

(* optimizer.py:39: w[field] = val on the wire at i, if there is one *)
SetField(ws, i, f, val) ==
    IF i = 0 THEN ws ELSE [ws EXCEPT ![i] = [@ EXCEPT ![f] = val]]

(* optimizer.py:36-49: the loop body for one variable on the list ws *)
Applied(ws, var, val) ==
    LET own == SetField(ws, FirstTagged(ws, var.wire_tag), var.field, val)
    IN  IF var.linked_wire_tag # None /\ var.linked_field # ""
        THEN SetField(own, FirstTagged(own, var.linked_wire_tag),
                      var.linked_field, val * var.link_factor)
        ELSE own

(* The same loop on the list it was given, without the copy of line 34:    *)
(* the caller's list is the list returned.                                 *)
ApplyInPlace(ws, var, val) ==
    [request |-> Applied(ws, var, val), produced |-> Applied(ws, var, val)]

(* optimizer.py:28-51 _apply_variables: the loop runs on a deep copy       *)
(* (line 34), which is returned; the caller's list is as it was.           *)
ApplyVariables(ws, var, val) ==
    [request |-> ws, produced |-> Applied(ws, var, val)]

(* optimizer.py:162-202: run_optimization receives the request *)
ReceiveRequest ==
    /\ apc = "idle"
    /\ request_wires' \in SeqsUpTo(WireDicts, MaxWires)
    /\ sent_wires' = request_wires'
    /\ variable' \in Variables
    /\ produced' = <<>>
    /\ applied' = 0
    /\ apc' = "ready"
    /\ UNCHANGED besidesApply

(* optimizer.py:209-214: objective_fn clamps the value the method asks     *)
(* for and applies it to request.wires; optimizer.py:255-259: so does the  *)
(* final application.                                                      *)
ApplyCall ==
    /\ apc = "ready"
    /\ applied < MaxApplied
    /\ \E x \in Points :
        LET r == ApplyVariables(request_wires, variable, Clamp(x))
        IN  /\ request_wires' = r.request
            /\ produced' = r.produced
    /\ applied' = applied + 1
    /\ UNCHANGED <<apc, sent_wires, variable, besidesApply>>

(* run_optimization returns: the next request *)
ApplyReturn ==
    /\ apc = "ready"
    /\ applied > 0
    /\ apc' = "idle"
    /\ UNCHANGED <<request_wires, sent_wires, variable, produced, applied,
                   besidesApply>>

InitApply ==
    /\ InitRequests
    /\ up = TRUE
    /\ pool = TRUE
    /\ faults = 0
    /\ enabled = FALSE
    /\ bodies = Bodies

NextApply ==
    \/ ReceiveRequest
    \/ ApplyCall
    \/ ApplyReturn

SpecApply == InitApply /\ [][NextApply]_vars

---------------------------------------------------------------------------
(* optimizer_ws (ws.py:16-127): the handler of one connection, its sender  *)
(* task and the executor thread.  run_optimization as it is under src/     *)
(* takes no on_progress (optimizer.py:162), so the call of ws.py:82 raises *)
(* TypeError; a search that calls on_progress once per evaluation, as the  *)
(* handler expects, is modelled next to it.                                *)
---------------------------------------------------------------------------

(* ws.py:44 asyncio.Queue(): maxsize 0, which asyncio takes as no limit *)
maxsize == 0

(* ws.py:52-55 put_nowait: QueueFull, which is passed over, only when the  *)
(* queue has a maxsize and holds that many                                 *)
Put(q, progress) ==
    IF maxsize > 0 /\ Len(q) >= maxsize THEN q ELSE Append(q, progress)

(* The end of the queue opposite to the one get takes from *)
GetNewest(q) == [progress |-> q[Len(q)], rest |-> SubSeq(q, 1, Len(q) - 1)]

(* ws.py:64, 94 get, get_nowait: the oldest event of the queue *)
Get(q) == [progress |-> Head(q), rest |-> Tail(q)]

(* ws.py:65-68, 95-98, 101-104, 121-125: the JSON messages, and close *)
Message(type, iteration) == [type |-> type, iteration |-> iteration]

(* ws.py:29 websocket.accept() *)
Accept ==
    /\ wpc = "connecting"
    /\ wpc' = "receiving"
    /\ UNCHANGED <<sender_task, worker, progress_queue, cancelled, emitted,
                   client, left, sent, besidesWs>>

(* ws.py:33-83: the request arrives; an invalid one raises at line 34 (to  *)
(* line 118); for a valid one the queue and the event are made, the        *)
(* sender task is created and the search is handed to the executor.        *)
ReceiveJson ==
    /\ wpc = "receiving"
    /\ client = "open"
    /\ \E valid \in BOOLEAN :
        IF valid
        THEN /\ wpc' = "running"
             /\ sender_task' = "waiting"
             /\ worker' = "submitted"
        ELSE /\ wpc' = "failed"
             /\ UNCHANGED <<sender_task, worker>>
    /\ UNCHANGED <<progress_queue, cancelled, emitted, client, left, sent,
                   besidesWs>>

(* ws.py:33, 116-117: receive_json raises WebSocketDisconnect *)
ReceiveDisconnect ==
    /\ wpc = "receiving"
    /\ client = "gone"
    /\ wpc' = "done"
    /\ UNCHANGED <<sender_task, worker, progress_queue, cancelled, emitted,
                   client, left, sent, besidesWs>>

(* The client closes the connection, at any moment after the accept *)
ClientClose ==
    /\ client = "open"
    /\ wpc \notin {"connecting", "done"}
    /\ client' = "gone"
    /\ left' = [at |-> wpc, sent |-> Len(sent)]
    /\ UNCHANGED <<wpc, sender_task, worker, progress_queue, cancelled,
                   emitted, sent, besidesWs>>

(* ws.py:82 with optimizer.py:162: run_optimization() got an unexpected    *)
(* keyword argument 'on_progress'                                          *)
RejectKeyword ==
    /\ worker = "submitted"
    /\ worker' = "typeerror"
    /\ UNCHANGED <<wpc, sender_task, progress_queue, cancelled, emitted,
                   client, left, sent, besidesWs>>

(* The search starts its next evaluation *)
StartEvaluation ==
    /\ worker \in {"submitted", "between"}
    /\ emitted < MaxEmits
    /\ worker' = "evaluating"
    /\ UNCHANGED <<wpc, sender_task, progress_queue, cancelled, emitted,
                   client, left, sent, besidesWs>>

(* on_progress without the test of the event *)
PutUnchecked ==
    /\ worker = "evaluating"
    /\ progress_queue' = Put(progress_queue, emitted + 1)
    /\ emitted' = emitted + 1
    /\ worker' = "between"
    /\ UNCHANGED <<wpc, sender_task, cancelled, client, left, sent, besidesWs>>

(* ws.py:47-55 on_progress, called by the search at the end of an          *)
(* evaluation: with the event set it raises InterruptedError, which ends   *)
(* the search (the exception reaches the handler, or the search returns    *)
(* what it has); otherwise the event is put on the queue.                  *)
OnProgress ==
    /\ worker = "evaluating"
    /\ IF cancelled
       THEN /\ worker' \in {"interrupted", "returned"}
            /\ UNCHANGED <<progress_queue, emitted>>
       ELSE /\ progress_queue' = Put(progress_queue, emitted + 1)
            /\ emitted' = emitted + 1
            /\ worker' = "between"
    /\ UNCHANGED <<wpc, sender_task, cancelled, client, left, sent, besidesWs>>

(* The search ends and run_optimization returns its result *)
SearchReturns ==
    /\ worker = "between"
    /\ worker' = "returned"
    /\ UNCHANGED <<wpc, sender_task, progress_queue, cancelled, emitted,
                   client, left, sent, besidesWs>>

(* ws.py:62-73 send_progress, one turn of its loop with an event in the    *)
(* queue: the event is taken and sent; on a closed connection send_json    *)
(* raises, the event is set and the task returns.  (A turn that times out  *)
(* changes nothing.)                                                       *)
SendProgress ==
    /\ sender_task = "waiting"
    /\ progress_queue # <<>>
    /\ LET got == Get(progress_queue)
       IN  /\ progress_queue' = got.rest
           /\ IF client = "open"
              THEN /\ sent' = Append(sent, Message("progress", got.progress))
                   /\ UNCHANGED <<cancelled, sender_task>>
              ELSE /\ cancelled' = TRUE
                   /\ sender_task' = "returned"
                   /\ UNCHANGED sent
    /\ UNCHANGED <<wpc, worker, emitted, client, left, besidesWs>>

(* ws.py:80-83, 118: the executor's future raised what is no               *)
(* InterruptedError; the sender task is left running                       *)
ExecutorFailed ==
    /\ wpc = "running"
    /\ worker = "typeerror"
    /\ wpc' = "failed"
    /\ UNCHANGED <<sender_task, worker, progress_queue, cancelled, emitted,
                   client, left, sent, besidesWs>>

(* ws.py:118-127: the error message and the close, if the connection still *)
(* takes them                                                              *)
SendError ==
    /\ wpc = "failed"
    /\ sent' = IF client = "open"
               THEN sent \o <<Message("error", 0), Message("close", 0)>>
               ELSE sent
    /\ wpc' = "done"
    /\ UNCHANGED <<sender_task, worker, progress_queue, cancelled, emitted,
                   client, left, besidesWs>>

(* ws.py:80-90: the search returned; the sender task is cancelled and      *)
(* awaited                                                                 *)
CancelSender ==
    /\ wpc = "running"
    /\ worker = "returned"
    /\ sender_task' = IF sender_task = "waiting" THEN "cancelled"
                      ELSE sender_task
    /\ wpc' = "draining"
    /\ UNCHANGED <<worker, progress_queue, cancelled, emitted, client, left,
                   sent, besidesWs>>

(* The queue emptied without sending *)
Discard ==
    /\ wpc = "draining"
    /\ progress_queue # <<>>
    /\ progress_queue' = <<>>
    /\ UNCHANGED <<wpc, sender_task, worker, cancelled, emitted, client, left,
                   sent, besidesWs>>

(* ws.py:93-98: one turn of the loop that sends what is left in the queue; *)
(* on a closed connection send_json raises (to line 116 or 118, where      *)
(* nothing can be sent)                                                    *)
Drain ==
    /\ wpc = "draining"
    /\ progress_queue # <<>>
    /\ LET got == Get(progress_queue)
       IN  /\ progress_queue' = got.rest
           /\ IF client = "open"
              THEN /\ sent' = Append(sent, Message("progress", got.progress))
                   /\ UNCHANGED wpc
              ELSE /\ wpc' = "done"
                   /\ UNCHANGED sent
    /\ UNCHANGED <<sender_task, worker, cancelled, emitted, client, left,
                   besidesWs>>

(* ws.py:100-104: the result message *)
SendResult ==
    /\ wpc = "draining"
    /\ progress_queue = <<>>
    /\ IF client = "open"
       THEN /\ sent' = Append(sent, Message("result", 0))
            /\ wpc' = "closing"
       ELSE /\ wpc' = "done"
            /\ UNCHANGED sent
    /\ UNCHANGED <<sender_task, worker, progress_queue, cancelled, emitted,
                   client, left, besidesWs>>

(* ws.py:106-112: the executor's future raised InterruptedError *)
Interrupted ==
    /\ wpc = "running"
    /\ worker = "interrupted"
    /\ sender_task' = IF sender_task = "waiting" THEN "cancelled"
                      ELSE sender_task
    /\ wpc' = "closing"
    /\ UNCHANGED <<worker, progress_queue, cancelled, emitted, client, left,
                   sent, besidesWs>>

(* ws.py:114 websocket.close() *)
Close ==
    /\ wpc = "closing"
    /\ sent' = IF client = "open" THEN Append(sent, Message("close", 0))
               ELSE sent
    /\ wpc' = "done"
    /\ UNCHANGED <<sender_task, worker, progress_queue, cancelled, emitted,
                   client, left, besidesWs>>

InitWs ==
    /\ InitRequests
    /\ up = TRUE
    /\ pool = TRUE
    /\ faults = 0
    /\ enabled = FALSE
    /\ bodies = Bodies

NextWs ==
    \/ Accept
    \/ ReceiveJson
    \/ ReceiveDisconnect
    \/ ClientClose
    \/ RejectKeyword
    \/ StartEvaluation
    \/ OnProgress
    \/ SearchReturns
    \/ SendProgress
    \/ ExecutorFailed
    \/ SendError
    \/ CancelSender
    \/ Drain
    \/ SendResult
    \/ Interrupted
    \/ Close

SpecWs == InitWs /\ [][NextWs]_vars

---------------------------------------------------------------------------
(* check_rate_limit (rate_limiter.py:52-95) on a clock finer than a        *)
(* second: time.time() is a float, Retry-After a whole number of seconds.  *)
(* One address, requests one after another, each released before the       *)
(* next; store reachable.                                                  *)
---------------------------------------------------------------------------

(* rate_limiter.py:54: the window, in ticks *)
WindowTicks == rate_limit_window_seconds * TicksPerSecond

(* rate_limiter.py:63 ZREMRANGEBYSCORE rate_key 0 window_start *)
Kept(members, tnow) == {s \in members : s > tnow - WindowTicks}

(* rate_limiter.py:81 int(): a duration in ticks cut to whole seconds *)
IntSeconds(ticks) == ticks \div TicksPerSecond

(* rate_limiter.py:77-81: retry_after, in seconds *)
RetryAfterSeconds(members, tnow) ==
    IF members = {} THEN rate_limit_window_seconds
    ELSE Max2(1, IntSeconds(Min(members) + WindowTicks - tnow))

(* rate_limiter.py:52-115: a request at the tick tk: the purge, the count, *)
(* then the rejection with its retry_after or the ZADD                     *)
CheckAt(tk) ==
    LET kept == Kept(entries, tk)
    IN  /\ clock' = tk
        /\ IF OverRate(Cardinality(kept))
           THEN /\ entries' = kept
                /\ kpc' = "rejected"
                /\ rejection' = [at |-> tk,
                                 retry_after |-> RetryAfterSeconds(kept, tk)]
           ELSE /\ entries' = AddEntry(kept, tk)
                /\ kpc' = "serving"
                /\ rejection' = NoRetry

(* The address sends its next request *)
Request ==
    /\ kpc = "serving"
    /\ \E tk \in (clock + 1)..MaxTicks : CheckAt(tk)
    /\ verdict' = ""
    /\ UNCHANGED besidesRetry

(* The rejected client waits retry_after seconds and sends again *)
RequestAfterRetry ==
    /\ kpc = "rejected"
    /\ LET tk == rejection.at + rejection.retry_after * TicksPerSecond
       IN  /\ CheckAt(tk)
           /\ verdict' = IF OverRate(Cardinality(Kept(entries, tk)))
                         THEN "rate_limit_exceeded" ELSE "admitted"
    /\ UNCHANGED besidesRetry

InitRetry ==
    /\ InitRequests
    /\ up = TRUE
    /\ pool = TRUE
    /\ faults = 0
    /\ enabled = TRUE
    /\ bodies = Bodies

NextRetry ==
    \/ Request
    \/ RequestAfterRetry

SpecRetry == InitRetry /\ [][NextRetry]_vars

---------------------------------------------------------------------------
(* build_card_deck (nec_input.py:7-123) and its two callers.  A string is  *)
(* a sequence of pieces of text: a word, a formatted number, a blank, a    *)
(* line break.                                                             *)
---------------------------------------------------------------------------

LineBreak == "\n"
Blank == " "

(* models/simulation.py:73: the comment is any string of up to 200         *)
(* characters; here up to MaxComment pieces, a line break among them       *)
CommentPieces == {"x", "EN", LineBreak}
Comments == {<<>>} \cup SeqsUpTo(CommentPieces, MaxComment)

(* The format specs of nec_input.py: an int as {}, a float as {:.1f} *)
FormatInt(n) == ToString(n)
FormatFixed1(n) == ToString(n) \o ".0"

(* int() of models/simulation.py:54, 58: the quotient cut towards zero *)
IntQuotient(a, b) == IF a >= 0 THEN a \div b ELSE -((-a) \div b)

(* models/simulation.py:52-58 *)
n_theta(pat) == IntQuotient(pat.theta_stop - pat.theta_start, pat.theta_step) + 1
n_phi(pat) == IntQuotient(pat.phi_stop - pat.phi_start, pat.phi_step) + 1

(* models/simulation.py:42-50: the patterns a request may carry *)
PatternConfig ==
    [theta_start : {-90}, theta_stop : {90}, theta_step : {5},
     phi_start : {0}, phi_stop : {355, 360}, phi_step : {5, 30}]

(* models/simulation.py:61-89: the requests the handler receives; of each  *)
(* wire, arc, transform, load, line and excitation the integer fields are  *)
(* kept, the floats of a card (formatted %.6f, %.4f, %.6g) are left out;   *)
(* symmetry is the empty sequence for None.                                *)
DeckRequests ==
    [comment : Comments,
     wires : {<<[tag |-> 1, segments |-> 1]>>,
              <<[tag |-> 1, segments |-> 1], [tag |-> 2, segments |-> 2]>>},
     arcs : {<<>>, <<[tag |-> 3, segments |-> 1]>>},
     transforms : {<<>>, <<[tag_increment |-> 1, n_new_structures |-> 1]>>},
     symmetry : {<<>>, <<[tag_increment |-> 1, n_copies |-> 2]>>},
     ground_type : {"free_space", "perfect", "average"},
     loads : {<<>>, <<[load_type |-> 0, wire_tag |-> 1]>>},
     transmission_lines : {<<>>, <<[wire_tag1 |-> 1, wire_tag2 |-> 2]>>},
     compute_currents : BOOLEAN,
     excitations : {<<[wire_tag |-> 1, segment |-> 1]>>},
     steps : {1},
     pattern : PatternConfig]

(* optimizer.py:63-85: the request of one objective evaluation: wires,     *)
(* excitations, ground and frequency from the optimization request, the    *)
(* comment fixed, every other field at its default                         *)
EvaluationRequests ==
    { [r EXCEPT !.comment = <<"optimizer", Blank, "iteration">>] :
        r \in { q \in DeckRequests :
                  /\ q.comment = <<>>
                  /\ q.arcs = <<>> /\ q.transforms = <<>> /\ q.symmetry = <<>>
                  /\ q.loads = <<>> /\ q.transmission_lines = <<>>
                  /\ q.compute_currents = FALSE
                  /\ q.pattern = DefaultPattern } }

(* The fields of a card with a blank between them, as the f-strings of     *)
(* nec_input.py put them.                                                  *)
RECURSIVE Card(_)
Card(fields) ==
    IF Len(fields) <= 1 THEN fields
    ELSE <<Head(fields), Blank>> \o Card(Tail(fields))

(* nec_input.py:123 "\n".join(lines) *)
RECURSIVE Join(_)
Join(lines) ==
    IF Len(lines) = 0 THEN <<>>
    ELSE IF Len(lines) = 1 THEN Head(lines)
    ELSE Head(lines) \o <<LineBreak>> \o Join(Tail(lines))

(* nec_input.py:112-118 *)
RPCard(pat) ==
    Card(<<"RP", "0", FormatInt(n_theta(pat)), FormatInt(n_phi(pat)), "1000",
           FormatFixed1(pat.theta_start), FormatFixed1(pat.phi_start),
           FormatFixed1(pat.theta_step), FormatFixed1(pat.phi_step)>>)

(* nec_input.py:66-72 *)
GNCard(ground_type) ==
    IF ground_type = "free_space" THEN Card(<<"GN", "-1">>)
    ELSE IF ground_type = "perfect" THEN Card(<<"GN", "1", "0", "0", "0", "0", "0">>)
    ELSE Card(<<"GN", "2", "0", "0", "0">>)

(* nec_input.py:18: f"CM {request.comment}" *)
CMCard(request) == <<"CM", Blank>> \o request.comment

(* nec_input.py:15-121: the list lines *)
DeckLines(request) ==
    << CMCard(request), <<"CE">> >>
    \o [i \in 1..Len(request.wires) |->
          Card(<<"GW", FormatInt(request.wires[i].tag),
                 FormatInt(request.wires[i].segments)>>)]
    \o [i \in 1..Len(request.arcs) |->
          Card(<<"GA", FormatInt(request.arcs[i].tag),
                 FormatInt(request.arcs[i].segments)>>)]
    \o [i \in 1..Len(request.transforms) |->
          Card(<<"GM", FormatInt(request.transforms[i].tag_increment),
                 FormatInt(request.transforms[i].n_new_structures)>>)]
    \o [i \in 1..Len(request.symmetry) |->
          Card(<<"GR", FormatInt(request.symmetry[i].tag_increment),
                 FormatInt(request.symmetry[i].n_copies)>>)]
    \o << IF request.ground_type = "free_space" THEN Card(<<"GE", "-1">>)
          ELSE Card(<<"GE", "0">>) >>
    \o << GNCard(request.ground_type) >>
    \o [i \in 1..Len(request.loads) |->
          Card(<<"LD", FormatInt(request.loads[i].load_type),
                 FormatInt(request.loads[i].wire_tag)>>)]
    \o [i \in 1..Len(request.transmission_lines) |->
          Card(<<"TL", FormatInt(request.transmission_lines[i].wire_tag1),
                 FormatInt(request.transmission_lines[i].wire_tag2)>>)]
    \o << IF request.compute_currents THEN Card(<<"PT", "0", "0", "0", "0">>)
          ELSE Card(<<"PT", "-1", "0", "0", "0">>) >>
    \o [i \in 1..Len(request.excitations) |->
          Card(<<"EX", "0", FormatInt(request.excitations[i].wire_tag),
                 FormatInt(request.excitations[i].segment), "0">>)]
    \o << Card(<<"FR", "0", FormatInt(request.steps), "0", "0">>) >>
    \o << RPCard(request.pattern) >>
    \o << <<"EN">> >>

(* nec_input.py:7-123 *)
build_card_deck(request) == Join(DeckLines(request)) \o <<LineBreak>>

(* str.split(sep): the parts of a string between the separators *)
Split(str, sep) ==
    LET at == {i \in 1..Len(str) : str[i] = sep}
        nth(k) == IF k = 0 THEN 0
                  ELSE IF k > Cardinality(at) THEN Len(str) + 1
                  ELSE CHOOSE i \in at : Cardinality({j \in at : j < i}) = k - 1
    IN  [k \in 1..(Cardinality(at) + 1) |->
            SubSeq(str, nth(k - 1) + 1, nth(k) - 1)]

(* The lines of a file as a reader of lines (nec2c, str.splitlines) finds  *)
(* them: the text between line breaks, nothing after the last one.         *)
ReadLines(file) ==
    LET parts == Split(file, LineBreak)
    IN  IF parts[Len(parts)] = <<>> THEN SubSeq(parts, 1, Len(parts) - 1)
        ELSE parts

(* The card a line holds: its first two characters, here its first piece. *)
Mnemonic(line) == IF line = <<>> THEN "" ELSE Head(line)

(* nec_input.py:115-117 read back: the fields of the RP card of a deck *)
RPFields(deck) ==
    LET lines == ReadLines(deck)
        rp == CHOOSE i \in 1..Len(lines) : Mnemonic(lines[i]) = "RP"
    IN  Split(lines[rp], Blank)

(* simulate.py:65: the handler of POST /simulate builds the deck of the    *)
(* validated request                                                       *)
BuildForSimulate ==
    /\ dpc = "idle"
    /\ \E request \in DeckRequests :
        /\ sim_request' = request
        /\ card_deck' = build_card_deck(request)
    /\ caller' = "simulate"
    /\ dpc' = "built"
    /\ UNCHANGED <<grid, besidesDeck>>

(* optimizer.py:63-87: _evaluate_objective builds its request and the deck *)
BuildForEvaluation ==
    /\ dpc = "idle"
    /\ \E request \in EvaluationRequests :
        /\ sim_request' = request
        /\ card_deck' = build_card_deck(request)
    /\ caller' = "optimizer"
    /\ dpc' = "built"
    /\ UNCHANGED <<grid, besidesDeck>>

(* simulate.py:86-95: the output is parsed with the geometry of the        *)
(* request's pattern                                                       *)
ParseForSimulate ==
    /\ dpc = "built"
    /\ caller = "simulate"
    /\ grid' = [n_theta |-> n_theta(sim_request.pattern),
                n_phi |-> n_phi(sim_request.pattern),
                theta_start |-> sim_request.pattern.theta_start,
                theta_step |-> sim_request.pattern.theta_step,
                phi_start |-> sim_request.pattern.phi_start,
                phi_step |-> sim_request.pattern.phi_step]
    /\ dpc' = "parsed"
    /\ UNCHANGED <<caller, sim_request, card_deck, besidesDeck>>

(* optimizer.py:94-101: the output is parsed with a geometry written out   *)
(* in the call                                                             *)
ParseForEvaluation ==
    /\ dpc = "built"
    /\ caller = "optimizer"
    /\ grid' = [n_theta |-> 37, n_phi |-> 73, theta_start |-> -90,
                theta_step |-> 5, phi_start |-> 0, phi_step |-> 5]
    /\ dpc' = "parsed"
    /\ UNCHANGED <<caller, sim_request, card_deck, besidesDeck>>

(* The caller returns. *)
DeckReturn ==
    /\ dpc = "parsed"
    /\ dpc' = "idle"
    /\ caller' = ""
    /\ sim_request' = NoDeckRequest
    /\ card_deck' = <<>>
    /\ grid' = NoGeometry
    /\ UNCHANGED besidesDeck

InitDeck ==
    /\ InitRequests
    /\ up = TRUE
    /\ pool = TRUE
    /\ faults = 0
    /\ enabled = TRUE
    /\ bodies = Bodies

NextDeck ==
    \/ BuildForSimulate
    \/ BuildForEvaluation
    \/ ParseForSimulate
    \/ ParseForEvaluation
    \/ DeckReturn

SpecDeck == InitDeck /\ [][NextDeck]_vars

---------------------------------------------------------------------------
(* Properties of the request pipeline *)

RECURSIVE Count(_, _)
Count(seq, x) ==
    IF seq = <<>> THEN 0
    ELSE (IF Head(seq) = x THEN 1 ELSE 0) + Count(Tail(seq), x)

Has(seq, x) == \E i \in 1..Len(seq) : seq[i] = x

IsPrefix(a, b) == Len(a) <= Len(b) /\ \A i \in 1..Len(a) : a[i] = b[i]

(* C1: a request that got past check_rate_limit calls release_concurrent  *)
(* exactly once before its handler finishes, whatever the exit path; and   *)
(* never more than once while it runs.                                     *)
C1_ReleaseExactlyOnce ==
    \A r \in Slots :
        Has(trace[r], "admitted") =>
            /\ Count(trace[r], "release") <= 1
            /\ pc[r] = "done" => Count(trace[r], "release") = 1

(* A simulate request that ended in an unexpected exception, released. *)
C1_Witness ==
    \E r \in Slots :
        /\ pc[r] = "done"
        /\ kind[r] = "simulate"
        /\ resp[r].error = "internal_error"
        /\ Count(trace[r], "release") = 1

HitOrder == <<"check", "admitted", "lookup", "hit">>
MissOrder ==
    <<"check", "admitted", "lookup", "miss", "build", "run", "parse", "store">>
RejectOrder == <<"check", "rejected">>

(* The steps of a handler before its release. *)
BeforeRelease(tr) ==
    IF tr # <<>> /\ tr[Len(tr)] = "release" THEN SubSeq(tr, 1, Len(tr) - 1)
    ELSE tr

(* C2: the steps of one simulate request come in the order admission,     *)
(* lookup, then on a hit nothing more (no build, no run), on a miss build, *)
(* run, parse, store; the release comes after all of them; a response that *)
(* carries a computed result went through every step of the miss order.    *)
C2_StepOrder ==
    \A r \in Slots :
        kind[r] = "simulate" =>
            LET steps == BeforeRelease(trace[r]) IN
            /\ \/ IsPrefix(steps, HitOrder)
               \/ IsPrefix(steps, MissOrder)
               \/ IsPrefix(steps, RejectOrder)
            /\ resp[r].status = 200 =>
                 steps = IF resp[r].result.cached THEN HitOrder ELSE MissOrder

(* A miss that went through every step and released. *)
C2_Witness ==
    \E r \in Slots :
        /\ pc[r] = "done"
        /\ kind[r] = "simulate"
        /\ trace[r] = MissOrder \o <<"release">>

(* C3: with the store reachable all along and the requests of the address *)
(* handled one after another, concurrent:<addr> never exceeds the          *)
(* concurrency limit.                                                      *)
C3_SerialWithinLimit ==
    faults = 0 => conc.val <= max_concurrent_per_ip

(* A later request of the address holds the one slot. *)
C3_Witness ==
    /\ faults = 0
    /\ enabled
    /\ started >= 2
    /\ conc.exists
    /\ conc.val = max_concurrent_per_ip
    /\ \E r \in Slots : slot[r] /\ pc[r] = "store"

CheckPcs == {"pipe", "zrange", "zadd", "expire_rate", "incr", "expire_conc"}
AdmittedPcs == {"lookup", "running"}

(* C4: with the limiter on and the store reachable, a request is admitted *)
(* with exactly one new entry of its own in rate:<addr>, entries are added *)
(* one at a time and only by the ZADD of a check; and of hourly_limit + 1  *)
(* requests sent one after another inside the window the first             *)
(* hourly_limit are admitted and the last is rejected with 429             *)
(* rate_limit_exceeded and a numeric Retry-After.                          *)
C4_EntryPerAdmission ==
    \A r \in Slots :
        /\ (faults = 0 /\ pc[r] = "expire_conc" /\ pc'[r] \in AdmittedPcs)
              => t[r] \in rate.members
        /\ (pc[r] = "zadd" /\ pc'[r] = "expire_rate")
              => /\ t[r] \notin rate.members
                 /\ rate'.members = rate.members \cup {t[r]}
        /\ (\A q \in Slots : ~(pc[q] = "zadd" /\ pc'[q] = "expire_rate"))
              => rate'.members \subseteq rate.members

C4_LimitThenReject ==
    (enabled /\ faults = 0 /\ now <= rate_limit_window_seconds) =>
        \A r \in Slots :
            pc[r] = "done" =>
                /\ sid[r] <= rate_limit_per_hour => Has(trace[r], "admitted")
                /\ sid[r] = rate_limit_per_hour + 1 =>
                     /\ resp[r].status = 429
                     /\ resp[r].error = "rate_limit_exceeded"
                     /\ resp[r].retry_after \in 1..rate_limit_window_seconds

C4_SlidingWindow == [][C4_EntryPerAdmission]_vars /\ []C4_LimitThenReject

(* The third request inside the window is turned away. *)
C4_Witness ==
    /\ enabled
    /\ faults = 0
    /\ now <= rate_limit_window_seconds
    /\ \E r \in Slots :
        /\ pc[r] = "done"
        /\ sid[r] = rate_limit_per_hour + 1
        /\ resp[r].error = "rate_limit_exceeded"
        /\ Cardinality(rate.members) = rate_limit_per_hour

(* C5 (amended): after the purge of the entries at or before now - window *)
(* a request goes to the rate-limit rejection exactly when the remaining   *)
(* count is >= hourly_limit; the rejection carries                         *)
(* max(1, oldest remaining + window - now), or window when no entry        *)
(* remains at the ZRANGE; it is always >= 1, and it is <= window when no   *)
(* remaining entry is newer than the request's own now.                    *)
C5_Counted ==
    \A r \in Slots :
        /\ pc[r] = "zrange" => cnt[r].request_count >= rate_limit_per_hour
        /\ pc[r] \in {"zadd", "expire_rate", "incr", "expire_conc"}
              => cnt[r].request_count < rate_limit_per_hour
        /\ (pc[r] = "done" /\ resp[r].status = 429)
              => (resp[r].error = "rate_limit_exceeded"
                    <=> cnt[r].request_count >= rate_limit_per_hour)

C5_Steps ==
    \A r \in Slots :
        /\ (pc[r] = "pipe" /\ pc'[r] # "pipe") =>
              LET kept == {s \in rate.members :
                             s > t[r] - rate_limit_window_seconds}
              IN  /\ rate'.members = kept
                  /\ cnt'[r].request_count = Cardinality(kept)
        /\ (pc[r] = "zrange" /\ pc'[r] # "zrange") =>
              /\ pc'[r] = "done"
              /\ resp'[r].status = 429
              /\ resp'[r].error = "rate_limit_exceeded"
              /\ resp'[r].retry_after =
                    IF rate.members = {} THEN rate_limit_window_seconds
                    ELSE Max2(1, Min(rate.members)
                                   + rate_limit_window_seconds - t[r])
              /\ resp'[r].retry_after >= 1
              /\ (\A s \in rate.members : s <= t[r])
                    => resp'[r].retry_after <= rate_limit_window_seconds

C6_AsStated ==
    \A r \in Slots :
        /\ pc[r] \in {"zadd", "expire_rate", "incr", "expire_conc"}
              => held[r] < max_concurrent_per_ip
        /\ (pc[r] = "done" /\ resp[r].status = 429
              /\ cnt[r].request_count < rate_limit_per_hour)
              => /\ resp[r].error = "concurrent_limit_exceeded"
                 /\ resp[r].retry_after = 5
                 /\ cnt[r].concurrent_count >= max_concurrent_per_ip
        /\ (pc[r] \in CheckPcs \ {"pipe"}
              /\ cnt[r].request_count >= rate_limit_per_hour)
              => pc[r] = "zrange"

(* C7: while the store is unreachable no step of a handler rejects or     *)
(* fails the request: a check ends admitted, a lookup is a miss and the    *)
(* solver runs, the store step still returns the result, the release       *)
(* leaves the response alone; and a health report sent while the store is  *)
(* unreachable says disconnected.                                          *)
C7_Steps ==
    \A r \in Slots :
        ~up =>
          /\ (pc[r] = "idle" /\ pc'[r] # "idle")
                => pc'[r] \in {"pipe"} \cup AdmittedPcs
          /\ (pc[r] \in CheckPcs /\ pc'[r] # pc[r]) => pc'[r] \in AdmittedPcs
          /\ (pc[r] = "lookup" /\ pc'[r] # "lookup")
                => pc'[r] = "running" /\ Has(trace'[r], "miss")
          /\ (pc[r] = "store" /\ pc'[r] # "store")
                => pc'[r] = "release" /\ resp'[r] = Ok200(res[r])
          /\ (pc[r] \in {"release", "reset"} /\ pc'[r] # pc[r])
                => pc'[r] = "done" /\ resp'[r] = resp[r]
          /\ resp'[r].status = 429 => resp[r].status = 429

C7_Health == health # <<>> => health = <<up>>

C7_FailOpen == [][C7_Steps]_vars /\ []C7_Health

(* The store went away under an admitted request: its result came back,    *)
(* its slot was never given back, and health says disconnected.            *)
C7_Witness ==
    /\ ~up
    /\ enabled
    /\ health = <<FALSE>>
    /\ conc.exists
    /\ conc.val = 1
    /\ \E r \in Slots :
        /\ pc[r] = "done"
        /\ resp[r].status = 200
        /\ resp[r].result.frequency_data # <<>>
        /\ ~resp[r].result.cached

(* C8: with the store reachable, an admitted simulate request whose body  *)
(* an earlier request has stored, the entry not yet expired, is answered   *)
(* from the cache: cached = true, computed_in_ms = 0, its own              *)
(* simulation_id, every other field equal to the first response, and no    *)
(* solver run.                                                             *)
C8_CacheHit ==
    \A r \in Slots :
        LET first == lastStored[compute_cache_key(body[r])] IN
        ( /\ pc[r] = "done"
          /\ kind[r] = "simulate"
          /\ Has(trace[r], "admitted")
          /\ faults = 0
          /\ first # NoResult
          /\ first.simulation_id # sid[r] ) =>
            /\ resp[r].status = 200
            /\ resp[r].result.cached = TRUE
            /\ resp[r].result.computed_in_ms = 0
            /\ resp[r].result.simulation_id = sid[r]
            /\ resp[r].result.frequency_data = first.frequency_data
            /\ resp[r].result.total_segments = first.total_segments
            /\ resp[r].result.warnings = first.warnings
            /\ resp[r].result.engine = first.engine
            /\ ~Has(trace[r], "run")

(* A second post answered from the cache, warnings included. *)
C8_Witness ==
    \E r \in Slots :
        /\ pc[r] = "done"
        /\ faults = 0
        /\ resp[r].result.cached
        /\ resp[r].result.simulation_id = 2
        /\ resp[r].result.warnings # <<>>
        /\ lastStored[compute_cache_key(body[r])].simulation_id = 1
        /\ lastStored[compute_cache_key(body[r])].computed_in_ms > 0

(* C9: nothing keeps two requests with one cache key apart; every store   *)
(* step overwrites the entry, so the cache holds the result stored last.   *)
C9_StoreStep ==
    \A r \in Slots :
        (pc[r] = "store" /\ pc'[r] = "release") =>
            LET entry == cache'[compute_cache_key(body[r])] IN
            /\ Deserialize(entry.data) = res[r]
            /\ entry.exp = now + CACHE_TTL_SECONDS

C9_HoldsLast ==
    \A k \in Keys :
        cache[k].data # <<>> => Deserialize(cache[k].data) = lastStored[k]

C9_LastWriteWins == [][C9_StoreStep]_vars /\ []C9_HoldsLast

(* Two requests with the same body both missed, both ran the solver, both  *)
(* stored; the entry is the one of the later store.                        *)
C9_Witness ==
    \E r \in Slots, q \in Slots :
        /\ r # q
        /\ pc[r] = "done" /\ pc[q] = "done"
        /\ body[r] = body[q]
        /\ trace[r] = MissOrder \o <<"release">>
        /\ trace[q] = MissOrder \o <<"release">>
        /\ sid[r] < sid[q]
        /\ Deserialize(cache[compute_cache_key(body[r])].data).simulation_id
              = sid[r]

---------------------------------------------------------------------------
(* Properties of run_nec2c *)

CleanupOrder == <<"input.out", "input.nec", "workdir">>

(* a is b with some elements left out *)
RECURSIVE IsSubSeq(_, _)
IsSubSeq(a, b) ==
    IF a = <<>> THEN TRUE
    ELSE IF b = <<>> THEN FALSE
    ELSE IF Head(a) = Head(b) THEN IsSubSeq(Tail(a), Tail(b))
    ELSE IsSubSeq(a, Tail(b))

RunPaths(id) == {output_file(id), input_file(id), workdir(id)}

(* C10 (amended): when run_nec2c returns or raises, on every path, its    *)
(* input.out, input.nec and working directory no longer exist unless a     *)
(* removal of the cleanup failed, which is logged; the paths that were     *)
(* removed went in the order input.out, input.nec, workdir; and the        *)
(* cleanup, failed or not, leaves the outcome of the run as it was.        *)
C10_AtEnd ==
    /\ IsSubSeq(removed, CleanupOrder)
    /\ rpc = "end" =>
          /\ pending \in Outcomes
          /\ logged \/ RunPaths(run_id) \cap fs = {}
          /\ logged => RunPaths(run_id) \cap fs # {}

C10_CleanupSteps ==
    /\ rpc \in {"rm_out", "rm_in", "rm_dir"} => pending' = pending
    /\ rpc = "end" => outcome' = pending
    /\ logged' /\ ~logged => rpc \in {"rm_out", "rm_in", "rm_dir"}

C10_Cleanup == []C10_AtEnd /\ [][C10_CleanupSteps]_vars

(* A run that timed out, removed input.out, failed to remove input.nec,    *)
(* logged it and still reports the timeout.                                *)
C10_Witness ==
    /\ rpc = "end"
    /\ pending = "timeout"
    /\ logged
    /\ removed = <<"input.out">>
    /\ input_file(run_id) \in fs
    /\ workdir(run_id) \in fs

(* C10 as stated: whenever run_nec2c ends, none of its three paths exists. *)
C10_AsStated ==
    rpc = "end" => RunPaths(run_id) \cap fs = {}

(* What run_nec2c does hold to: it returns the output text exactly when    *)
(* the solver exited with code 0 before the deadline, input.out exists,    *)
(* was read, and holds neither marker; when the solver process was started *)
(* and the output, if reached, was read, every other outcome is a          *)
(* NecExecutionError with the precedence timeout, non-zero exit, no output *)
(* file, geometry marker, segment marker; a failure to create the          *)
(* directory, write the deck, start the solver or read the output leaves   *)
(* as the exception it is.                                                 *)
RunnerClassifies ==
    rpc = "end" =>
        LET launched == ran.end \in {"exit0", "exit1", "timeout"}
            readable == launched /\ ~ran.read_failed
        IN
        /\ pending = "output" <=>
              /\ ran.end = "exit0" /\ ran.has_out /\ ~ran.read_failed
              /\ ~ran.geometry /\ ~ran.segment
        /\ pending = "exception" <=> ~readable
        /\ readable =>
              pending =
                IF ran.end = "timeout" THEN "timeout"
                ELSE IF ran.end = "exit1" THEN "nonzero_exit"
                ELSE IF ~ran.has_out THEN "no_output_file"
                ELSE IF ran.geometry THEN "geometry"
                ELSE IF ran.segment THEN "segment"
                ELSE "output"

ExitCodeDecides ==
    /\ rpc = "end"
    /\ ran.end = "exit1"
    /\ ran.has_out
    /\ pending = "nonzero_exit"

(* C11: run_nec2c ends with the output text or with a NecExecutionError;  *)
(* every outcome that is not the output text is a typed error.             *)
C11_AsStated ==
    rpc = "end" => pending \in {"output"} \cup NecErrors

(* What the runner does hold to: every step of a call creates and deletes *)
(* only paths of the directory named by its own run identifier, and only   *)
(* such directories ever hold anything; two calls that drew different      *)
(* identifiers never touch each other's directory.                         *)
OwnPathsOnly ==
    \A path \in (fs' \ fs) \cup (fs \ fs') : path[1] = run_id

OnlyDrawnIds ==
    \A path \in fs : path[1] \in used \cup {run_id}

RunnerIsolation == [][OwnPathsOnly]_vars /\ []OnlyDrawnIds

(* C12: no call of run_nec2c works in a directory that an earlier call    *)
(* used: the run identifier of a running call was never drawn before.      *)
C12_AsStated ==
    rpc # "idle" => run_id \notin used

(* The failures simulate.py answers itself, each with the simulation_id:  *)
(* the status and the error tag of the detail.                             *)
StructuredFailures ==
    { <<422, "simulation_failed">>, <<500, "parse_failed">>,
      <<422, "no_results">> }

(* C13: a simulate request that was admitted and called the solver ends    *)
(* with a result or with one of the structured errors simulation_failed    *)
(* (422), parse_failed (500), no_results (422).                            *)
C13_AsStated ==
    \A r \in Slots :
        /\ kind[r] = "simulate"
        /\ Has(trace[r], "run")
        /\ resp[r].status \notin {0, 200}
        => <<resp[r].status, resp[r].error>> \in StructuredFailures

(* What does hold: an error answer never carries a result, and a result    *)
(* is only ever answered with status 200.                                  *)
NeverBothErrorAndResult ==
    \A r \in Slots :
        resp[r].result # NoResult <=> resp[r].status = 200 /\ kind[r] = "simulate"

(* C14: every successful simulate response holds exactly frequency.steps  *)
(* entries in frequency_data.                                              *)
C14_AsStated ==
    \A r \in Slots :
        kind[r] = "simulate" /\ resp[r].status = 200
        => Len(resp[r].result.frequency_data) = body[r].steps

(* What does hold: a successful response holds at least one entry. *)
SuccessHasData ==
    \A r \in Slots :
        kind[r] = "simulate" /\ resp[r].status = 200
        => resp[r].result.frequency_data # <<>>

(* The four defects of a request, read off the request alone; where       *)
(* several wires carry the tag of an excitation, its segment is out of     *)
(* range if it is out of the range of each of them.                        *)
Invalid(req) ==
    \/ \E i \in 1..Len(req.wires) : req.wires[i].coincident
    \/ SumSeq([i \in 1..Len(req.wires) |-> req.wires[i].segments])
          > max_total_segments
    \/ \E j \in 1..Len(req.excitations) :
          LET ex == req.excitations[j]
              named == { i \in 1..Len(req.wires) :
                            req.wires[i].tag = ex.wire_tag }
          IN  \/ named = {}
              \/ \A i \in named :
                    ex.segment \notin 1..req.wires[i].segments

(* C15: a request is rejected at validation, and the handler is never    *)
(* entered with it (no deck, no run, nothing cached), whenever a wire has  *)
(* coincident endpoints, the segments of its wires sum to more than the    *)
(* limit, an excitation names a tag that no wire carries, or the segment   *)
(* of an excitation is outside 1..segments of the wire its tag names.      *)
C15_RejectedAtValidation ==
    Invalid(vreq) =>
        /\ ~handled
        /\ vpc \in {"fields", "total", "refs", "rejected"}

C15_Witness ==
    /\ vpc = "rejected"
    /\ verr = "segment_range"
    /\ Len(vreq.wires) = 2
    /\ vreq.excitations[1].segment > vreq.wires[1].segments
    /\ ~handled

(* C16: the handler is never entered with a request in which two wires     *)
(* carry the same tag.                                                     *)
C16_AsStated ==
    handled =>
        \A i, k \in 1..Len(vreq.wires) :
            vreq.wires[i].tag = vreq.wires[k].tag => i = k

(* The lines a result was built from. *)
LinesOf(res1) ==
    {res1.impedance, res1.power_radiated, res1.power_input}
    \cup {res1.pattern[j] : j \in 1..Len(res1.pattern)}
    \cup {res1.currents[j] : j \in 1..Len(res1.currents)}

(* The line at which block n of the output ends. *)
BlockEnd(n) == IF n < Len(blocks) THEN blocks[n + 1].header - 1 ELSE lineno

(* The blocks in which an impedance row was parsed: all of them once the   *)
(* output has ended, all but the one being read before that.               *)
RECURSIVE WithImpedance(_)
WithImpedance(n) ==
    IF n = 0 THEN <<>>
    ELSE IF blocks[n].impedance_row /\ (n < Len(blocks) \/ ppc = "done")
    THEN Append(WithImpedance(n - 1), n)
    ELSE WithImpedance(n - 1)

(* C17: parse_nec_output returns exactly one FrequencyResult per frequency *)
(* block in which an impedance row was parsed, in the order of the blocks, *)
(* the last block at the end of the output included; a block without an    *)
(* impedance row gives no result; and each result is built only from       *)
(* lines of its own block.                                                 *)
C17_OnePerBlock ==
    LET kept == WithImpedance(Len(blocks))
    IN  /\ Len(parser.results) = Len(kept)
        /\ \A j \in 1..Len(kept) :
              LET res1 == parser.results[j]
                  n == kept[j]
              IN  /\ res1.frequency = blocks[n].header
                  /\ res1.impedance # 0
                  /\ \A l \in LinesOf(res1) \ {0} :
                        blocks[n].header < l /\ l <= BlockEnd(n)

(* Two blocks, the first without an impedance row: one result, from the    *)
(* block that ends the output.                                             *)
C17_Witness ==
    /\ ppc = "done"
    /\ Len(blocks) = 2
    /\ ~blocks[1].impedance_row
    /\ Len(parser.results) = 1
    /\ parser.results[1].frequency = blocks[2].header
    /\ parser.results[1].power_radiated # 0

(* C18: a RADIATED POWER or INPUT POWER line inside a frequency block is   *)
(* the block's power budget from then on, whatever the parser was doing.   *)
C18_AsStated ==
    ppc = "lines" /\ blocks # <<>> =>
        /\ parser.current_power_radiated = blocks[Len(blocks)].radiated
        /\ parser.current_power_input = blocks[Len(blocks)].input_power

(* What does hold: outside the header lines a section skips, a power line  *)
(* of a block is its power budget.                                         *)
PowerOutsideHeaders ==
    [][ /\ ppc = "lines" /\ ppc' = "lines"
        /\ blocks # <<>> /\ Len(blocks') = Len(blocks)
        /\ ~(/\ parser.skip_header_lines > 0
             /\ \/ parser.in_input_params
                \/ parser.in_pattern_section
                \/ parser.in_current_section)
        => /\ blocks'[Len(blocks')].radiated # blocks[Len(blocks')].radiated
              => parser'.current_power_radiated = lineno'
           /\ blocks'[Len(blocks')].input_power
                 # blocks[Len(blocks')].input_power
              => parser'.current_power_input = lineno' ]_vars

(* C19: the iterations_used of an OptimizationResult never exceeds the    *)
(* max_iterations of the request.                                          *)
C19_AsStated ==
    opc = "returned" => oresult.iterations_used <= max_iterations

(* What does hold: the iterations of the method stay within max_iterations *)
(* and the evaluations within what the first simplex and that many         *)
(* iterations can take.                                                    *)
EvaluationsBounded ==
    /\ iterations <= max_iterations
    /\ iteration_count <=
          (n_variables + 1) + (max_iterations - 1) * (n_variables + 2)

(* C20: in every OptimizationResult, whatever its status, history has      *)
(* exactly iterations_used entries and its k-th entry has iteration = k.   *)
C20_AsStated ==
    opc = "returned" =>
        /\ Len(oresult.history) = oresult.iterations_used
        /\ \A k \in 1..Len(oresult.history) : oresult.history[k].iteration = k

(* What does hold: the k-th entry has iteration = k, every evaluation that *)
(* returned, the penalty included, has its entry, and only a result of     *)
(* status error counts one evaluation more than it lists.                  *)
HistoryNumbered ==
    /\ \A k \in 1..Len(history) : history[k].iteration = k
    /\ Len(history) =
          iteration_count -
             (IF opc = "raised" \/ oresult.status = "error" THEN 1 ELSE 0)
    /\ opc = "returned" /\ oresult.status # "error"
          => Len(oresult.history) = oresult.iterations_used

(* C21: in every returned OptimizationResult the value of the variable    *)
(* in optimized_values, the value written into optimized_wires and the     *)
(* value of every history entry lie within [min_value, max_value].         *)
Within(v) == MinValue <= v /\ v <= MaxValue

C21_AsStated ==
    opc = "returned" =>
        /\ Within(oresult.optimized_values)
        /\ oresult.optimized_wires # None => Within(oresult.optimized_wires)
        /\ \A k \in 1..Len(oresult.history) : Within(oresult.history[k].values)

(* What does hold: the history values always, and all three in a result    *)
(* of status success or max_iterations.                                    *)
ClampedUnlessError ==
    /\ \A k \in 1..Len(history) : Within(history[k].values)
    /\ opc = "returned" /\ oresult.status # "error" =>
          /\ Within(oresult.optimized_values)
          /\ oresult.optimized_wires # None => Within(oresult.optimized_wires)

(* C22: a returned OptimizationResult with a non-empty history reports the *)
(* best point found: final_cost is the lowest cost of the history and      *)
(* optimized_values are the values of an entry of that cost.               *)
C22_AsStated ==
    opc = "returned" /\ oresult.history # <<>> =>
        /\ oresult.final_cost = LowestCost(oresult.history)
        /\ oresult.final_cost <= oresult.history[1].cost
        /\ \E k \in 1..Len(oresult.history) :
              /\ oresult.history[k].cost = oresult.final_cost
              /\ oresult.history[k].values = oresult.optimized_values

(* What does hold: a result of status success or max_iterations reports    *)
(* the best point of its history.                                          *)
BestUnlessError ==
    opc = "returned" /\ oresult.status # "error" =>
        /\ oresult.final_cost = LowestCost(oresult.history)
        /\ \E k \in 1..Len(oresult.history) :
              /\ oresult.history[k].cost = oresult.final_cost
              /\ oresult.history[k].values = oresult.optimized_values

(* C24: a failure inside an evaluation gives that evaluation the penalty   *)
(* cost and the search goes on: it never ends the search nor makes the     *)
(* status error.                                                           *)
C24_AsStated ==
    evaluated \notin {"", "none"} =>
        /\ opc \notin {"raised"}
        /\ oresult.status # "error"
        /\ history # <<>>
        /\ history[Len(history)].cost = Penalty

(* What does hold: the four failures the evaluation catches give the       *)
(* penalty and leave the search running.                                   *)
CaughtFailuresPenalised ==
    evaluated \in {"invalid_geometry", "nec_error", "parse_exception",
                   "empty_parse"} =>
        /\ opc # "raised"
        /\ history[Len(history)].cost = Penalty
        /\ history[Len(history)].iteration = iteration_count

(* C23: applying the variables never changes the request: request.wires   *)
(* are as the client sent them after any number of evaluations, and a      *)
(* produced wire list differs from them only in the field the variable     *)
(* names or the field its link names.                                      *)
C23_RequestUntouched ==
    /\ request_wires = sent_wires
    /\ produced # <<>> =>
          /\ Len(produced) = Len(sent_wires)
          /\ \A i \in 1..Len(produced), f \in Fields :
                produced[i][f] # sent_wires[i][f] =>
                    f \in {variable.field, variable.linked_field}

(* Two applications, of which the last produced a list that differs from   *)
(* the request's in the variable's field and in the link's.                *)
C23_Witness ==
    /\ applied = 2
    /\ variable.linked_wire_tag # None
    /\ variable.linked_field \notin {"", variable.field}
    /\ \E i, j \in 1..Len(produced) :
          /\ produced[i][variable.field] # sent_wires[i][variable.field]
          /\ produced[j][variable.linked_field]
                 # sent_wires[j][variable.linked_field]

(* The iterations of the progress messages sent, in the order sent *)
ProgressSent ==
    SelectSeq(sent, LAMBDA m : m.type = "progress")

QueueHoldsAll ==
    /\ Len(progress_queue) <= emitted
    /\ \A k \in 1..Len(progress_queue) :
          progress_queue[k] = emitted - Len(progress_queue) + k

(* C29: after the client closed the connection during the optimization,    *)
(* no further message is sent, and the handler, when it ends, has          *)
(* decremented the concurrency counter of the client's address.            *)
C29_AsStated ==
    [][left.at = "running" /\ wpc # "done" /\ wpc' = "done" =>
          /\ Len(sent') = left.sent
          /\ conc'.val = conc.val - 1]_vars

(* What does hold: nothing is sent once the client is gone. *)
NothingSentAfterClose ==
    client = "gone" => Len(sent) = left.sent

(* C30: the solver run or the search of one request never blocks the      *)
(* others: while a request is inside it, another request that is at its    *)
(* admission check or at its cache lookup can take that step.              *)
C30_AsStated ==
    \A a, b \in Slots :
        a # b /\ pc[a] = "running" =>
            /\ pc[b] = "pipe" => ENABLED Pipe(b)
            /\ pc[b] = "lookup" => ENABLED Lookup(b)

(* What does hold: while a request is inside run_nec2c or run_optimization *)
(* no other request takes a step, and the request itself goes on.          *)
LoopHeldWhileRunning ==
    \A a, b \in Slots :
        a # b /\ pc[a] = "running" =>
            /\ busy = a
            /\ ~ENABLED Pipe(b)
            /\ ~ENABLED Lookup(b)
            /\ ENABLED (SimulateEnd(a) \/ OptimizeEnd(a))

(* C40: after any prefix of the lines at most one of in_input_params,      *)
(* in_pattern_section and in_current_section is true, and                  *)
(* in_current_section is never true when compute_currents is false.        *)
C40_OneSection ==
    /\ ~(parser.in_input_params /\ parser.in_pattern_section)
    /\ ~(parser.in_input_params /\ parser.in_current_section)
    /\ ~(parser.in_pattern_section /\ parser.in_current_section)
    /\ parser.in_current_section => compute_currents

(* The pattern section entered from inside the currents section, after a   *)
(* row of currents was parsed                                              *)
C40_Witness ==
    /\ ppc = "lines"
    /\ parser.in_pattern_section
    /\ compute_currents
    /\ parser.current_currents # <<>>

(* C39: however optimizer_ws ends, the send_progress task is not left     *)
(* running: it was never created, it has returned or it was cancelled.     *)
C39_AsStated ==
    wpc = "done" => sender_task \in {"none", "returned", "cancelled"}

(* What does hold: the task is left running only when the call handed to   *)
(* the executor raised what is no InterruptedError.                        *)
SenderEndsUnlessCallFailed ==
    wpc = "done" /\ worker # "typeerror" =>
        sender_task \in {"none", "returned", "cancelled"}

(* C32: a rejected admission changes nothing of the admission state but   *)
(* the purge of expired entries: its steps add no entry to rate:<addr>,    *)
(* remove only entries older than the window, leave concurrent:<addr> as   *)
(* it is, and no release follows the rejection.                            *)
C32_RejectionFrame ==
    /\ [][\A r \in Slots :
            (/\ pc[r] \in {"pipe", "zrange"}
             /\ pc'[r] \in {"zrange", "done"}
             /\ pc'[r] # pc[r]) =>
                /\ rate'.members \subseteq rate.members
                /\ \A s \in rate.members \ rate'.members :
                      s <= t[r] - rate_limit_window_seconds
                /\ conc' = conc
                /\ slot' = slot]_vars
    /\ [][\A r \in Slots :
            (pc[r] = "done" /\ resp[r].status = 429) =>
                /\ pc'[r] \in {"done", "idle"}
                /\ ~Has(trace[r], "release")]_vars

(* A request rejected for the hourly limit while another request holds a   *)
(* slot, which is still counted                                            *)
C32_Witness ==
    \E r, q \in Slots :
        /\ pc[r] = "done"
        /\ resp[r].status = 429
        /\ resp[r].error = "rate_limit_exceeded"
        /\ slot[q]
        /\ conc.exists
        /\ conc.val = 1

(* The counter key as the claim C33 wants it: absent, or not negative and  *)
(* with an expiry of at most the 120 s                                     *)
CounterSound(c, n) ==
    c.exists => /\ c.val >= 0
                /\ c.exp # NoTTL
                /\ c.exp <= n + ConcTTL

(* The step of request r that completes its admission or its release *)
Completes(r) ==
    \/ pc[r] \in CheckPcs /\ pc'[r] \in AdmittedPcs
    \/ pc[r] \in {"release", "reset"} /\ pc'[r] = "done"

(* C33: after every completed admission and every completed release        *)
(* concurrent:<addr>, if it exists, is >= 0 and has an expiry of at most    *)
(* 120 s; and with no store error, once no request is in flight the        *)
(* counter is 0.                                                           *)
C33_AsStated ==
    /\ [][\A r \in Slots : Completes(r) => CounterSound(conc', now')]_vars
    /\ [](faults = 0 /\ (\A r \in Slots : ~InFlight(r)) => conc.val = 0)

(* What does hold: the same as long as no store command has failed. *)
CounterSoundWithoutFaults ==
    /\ [][\A r \in Slots :
            faults' = 0 /\ Completes(r) => CounterSound(conc', now')]_vars
    /\ [](faults = 0 /\ (\A r \in Slots : ~InFlight(r)) => conc.val = 0)

(* The requests whose admission incremented the counter and completed,    *)
(* and that have not released                                              *)
AdmittedUnreleased == {r \in Slots : slot[r] /\ pc[r] \notin CheckPcs}

(* C34: however the admission steps of several requests interleave, with   *)
(* the store reachable and no slot lost to a key expiry (the counter       *)
(* counts exactly the slots held), the requests admitted and not yet       *)
(* released are never more than the concurrency limit.                     *)
C34_AsStated ==
    (/\ conc.exists
     /\ conc.val = Cardinality({r \in Slots : slot[r]}))
        => Cardinality(AdmittedUnreleased) <= max_concurrent_per_ip

(* C35: at every moment concurrent:<addr> is at least the number of        *)
(* requests in flight whose admission incremented it and that have not     *)
(* yet released.                                                           *)
C35_AsStated ==
    \A q \in Slots :
        slot[q] => (IF conc.exists THEN conc.val ELSE 0)
                       >= Cardinality({r \in Slots : slot[r]})

(* What does hold: the counter never counts more than it was incremented   *)
(* for, and a slot is lost only to the expiry of the key or to the DECR or *)
(* the SET 0 of a release.                                                 *)
SlotLostOnlyByExpiryOrRelease ==
    [][(/\ (IF conc.exists THEN conc.val ELSE 0)
              >= Cardinality({r \in Slots : slot[r]})
        /\ (IF conc'.exists THEN conc'.val ELSE 0)
              < Cardinality({r \in Slots : slot'[r]}))
          => \/ now' > now
             \/ \E r \in Slots : /\ pc[r] \in {"release", "reset"}
                                 /\ pc'[r] # pc[r]]_vars

(* C36: a request sent retry_after seconds after a rate-limit rejection,   *)
(* with no admission in between, is not rejected for the hourly limit.     *)
C36_AsStated ==
    verdict # "rate_limit_exceeded"

(* What does hold: the request sent after retry_after is rejected again    *)
(* only because the oldest entry has less than a second left in the        *)
(* window, and the retry_after it gets then is 1.                          *)
RetryShortByLessThanASecond ==
    verdict = "rate_limit_exceeded" =>
        /\ Min(entries) + WindowTicks - clock < TicksPerSecond
        /\ rejection.retry_after = 1

(* C37: the cache holds only results of runs that ended well with at least *)
(* one frequency point: every entry is such a result, and an entry is      *)
(* written only by the store step of a request that missed the cache, ran  *)
(* the solver and parsed a non-empty frequency_data; no step of a request  *)
(* that hit the cache or left with an error writes an entry.               *)
C37_EntriesAreResults ==
    \A k \in Keys :
        cache[k].data # <<>> =>
            LET e == Deserialize(cache[k].data) IN
            /\ e.frequency_data # <<>>
            /\ e.engine = "nec2c"
            /\ e.cached = FALSE

C37_WrittenByStoreOnly ==
    \A k \in Keys :
        (cache'[k] # cache[k] /\ cache'[k].data # <<>>) =>
            \E r \in Slots :
                /\ pc[r] = "store" /\ pc'[r] = "release"
                /\ k = compute_cache_key(body[r])
                /\ trace[r] = <<"check", "admitted", "lookup", "miss",
                                "build", "run", "parse">>
                /\ res[r].frequency_data # <<>>
                /\ resp'[r].status = 200
                /\ Deserialize(cache'[k].data) = res[r]

C37_OnlySuccessfulRuns ==
    []C37_EntriesAreResults /\ [][C37_WrittenByStoreOnly]_vars

(* Three requests with one body: one stored its result, one left with an   *)
(* error, one was answered from the cache; the entry is there.             *)
C37_Witness ==
    \E r \in Slots, q \in Slots :
        /\ r # q
        /\ pc[r] = "done" /\ pc[q] = "done"
        /\ "hit" \in {trace[r][i] : i \in 1..Len(trace[r])}
        /\ resp[q].status \in {422, 500}
        /\ body[q] = body[r]
        /\ cache[compute_cache_key(body[r])].data # <<>>

(* C31: the deck has exactly one line per card, in the fixed order CM, CE, *)
(* GW per wire, GA, GM, GR, GE, GN, LD per load, TL per line, PT, EX per   *)
(* excitation, FR, RP, EN, and ends in a single line break; no value of a  *)
(* request field, the comment included, adds, removes or reorders a line.  *)
ExpectedCards(request) ==
    <<"CM", "CE">>
    \o [i \in 1..Len(request.wires) |-> "GW"]
    \o [i \in 1..Len(request.arcs) |-> "GA"]
    \o [i \in 1..Len(request.transforms) |-> "GM"]
    \o [i \in 1..Len(request.symmetry) |-> "GR"]
    \o <<"GE", "GN">>
    \o [i \in 1..Len(request.loads) |-> "LD"]
    \o [i \in 1..Len(request.transmission_lines) |-> "TL"]
    \o <<"PT">>
    \o [i \in 1..Len(request.excitations) |-> "EX"]
    \o <<"FR", "RP", "EN">>

OneLinePerCard ==
    LET lines == ReadLines(card_deck)
    IN  /\ [i \in 1..Len(lines) |-> Mnemonic(lines[i])] = ExpectedCards(sim_request)
        /\ card_deck[Len(card_deck)] = LineBreak
        /\ card_deck[Len(card_deck) - 1] # LineBreak

C31_AsStated ==
    dpc # "idle" => OneLinePerCard

(* What does hold: a comment without a line break leaves the deck with one *)
(* line per card in the fixed order, whatever the other fields are, and    *)
(* the deck of an objective evaluation always is.                          *)
OneLinePerCardUnlessCommentBreaks ==
    dpc # "idle" =>
        /\ (\A i \in 1..Len(sim_request.comment) :
               sim_request.comment[i] # LineBreak) => OneLinePerCard
        /\ caller = "optimizer" => OneLinePerCard

(* C38: in an objective evaluation the geometry handed to the parser is    *)
(* the geometry the RP card of the deck asked the solver for.              *)
GeometryAsRequested ==
    LET rp == RPFields(card_deck)
    IN  /\ rp[3] = <<FormatInt(grid.n_theta)>>
        /\ rp[4] = <<FormatInt(grid.n_phi)>>
        /\ rp[6] = <<FormatFixed1(grid.theta_start)>>
        /\ rp[7] = <<FormatFixed1(grid.phi_start)>>
        /\ rp[8] = <<FormatFixed1(grid.theta_step)>>
        /\ rp[9] = <<FormatFixed1(grid.phi_step)>>

C38_AsStated ==
    (dpc = "parsed" /\ caller = "optimizer") => GeometryAsRequested

(* What does hold: the handler of POST /simulate parses with the geometry  *)
(* of its RP card; an objective evaluation does in everything but n_phi,   *)
(* where the card asks for 72 values and the parser is told 73.            *)
GeometryAsRequestedButPhiCount ==
    dpc = "parsed" =>
        IF caller = "simulate" THEN GeometryAsRequested
        ELSE caller = "optimizer" =>
                LET rp == RPFields(card_deck)
                IN  /\ rp[3] = <<FormatInt(grid.n_theta)>>
                    /\ rp[4] = <<"72">> /\ grid.n_phi = 73
                    /\ rp[6] = <<FormatFixed1(grid.theta_start)>>
                    /\ rp[7] = <<FormatFixed1(grid.phi_start)>>
                    /\ rp[8] = <<FormatFixed1(grid.theta_step)>>
                    /\ rp[9] = <<FormatFixed1(grid.phi_step)>>

====
